---- MODULE Spec2Model ----
(***************************************************************************)
(* X-Ray SDK: the tracing client (packages/xray_sdk/xray_sdk/client.py)    *)
(* with its durable queue file, and the collector's storage                *)
(* (apps/api/main.py).                                                     *)
(*                                                                         *)
(* One client instance runs single-threaded: every handler of the client   *)
(* (start_execution, the exit of a step scope, flush) is one action that   *)
(* includes every call it makes (_post, flush, _post_raw, _enqueue and the *)
(* collector's handlers that the HTTP calls reach).  What the network does *)
(* to each HTTP call is the environment's choice, drawn with \E.  In Spec  *)
(* the queue file's filesystem works (no I/O error on the queue file).     *)
(***************************************************************************)
EXTENDS Integers, Sequences, FiniteSets, TLC

\* ------------------------------------------------------------------ bounds
\* uuid4 values the client draws (executions and steps together)
MaxIds == 3
\* readings of the millisecond clock: 0..MaxTime
MaxTime == 1
\* step scopes open at once (nested `with client.step(...)`)
MaxDepth == 2
\* limits tried by a direct call of flush(limit): 0..MaxLimit
MaxLimit == 2
\* ids used by direct calls of the collector's API
MaxApiIds == 2
\* the client's max_queue_bytes, scaled to the model's line sizes
max_queue_bytes == 2

\* nesting depth of the structures handed to redact
MaxNest == 3
\* pipeline threads that share one queue file
MaxThreads == 2
\* length of one list of tags handed to the client
MaxTags == 2
\* tags added to one step through its handle, over all calls of tag
MaxAdded == 3
\* ids drawn while the tags are followed: one execution and one step
MaxTagIds == 2
\* calls of _enqueue in a row
MaxEnqueues == 7

\* the limit _post passes to flush
POST_FLUSH_LIMIT == 25

\* ------------------------------------------------------------------ values
\* What the network does to one HTTP POST:
\*   "ok"   the collector's handler runs and the client reads a 2xx response
\*   "fail" the request never reaches the handler (connection error, timeout
\*          before the handler ran, non-2xx from a proxy): the client raises
\*   "lost" the handler runs and commits, and the client still raises (the
\*          read of the response times out after timeout_s)
NetOutcome == {"ok", "fail", "lost"}

NoError == [type |-> "None", message |-> ""]
\* failures a step body can raise: one that `except Exception` catches and one
\* that it does not (KeyboardInterrupt derives from BaseException only)
ValueErr == [type |-> "ValueError", message |-> "boom"]
KbdInt == [type |-> "KeyboardInterrupt", message |-> ""]
\* the error requests.post / raise_for_status raise
DeliveryError == [type |-> "RequestException", message |-> "delivery"]
BodyOutcomes == {NoError, ValueErr, KbdInt}

IsException(e) ==
    e.type \in {"ValueError", "RequestException"}

\* ------------------------------------------------------ JSON-like values
\* A text is a sequence of one-character strings.  A value is a string
\* scalar, a dict (its items in insertion order, keys distinct) or a list.
Str(s) == [t |-> "str", s |-> s]
Dict(items) == [t |-> "dict", items |-> items]
List(items) == [t |-> "list", items |-> items]
Item(k, v) == [k |-> k, v |-> v]

UpperCase == <<"A", "B", "C", "D", "E", "F", "G", "H", "I", "J", "K", "L", "M", "N", "O", "P", "Q", "R", "S", "T", "U", "V", "W", "X", "Y", "Z">>
LowerCase == <<"a", "b", "c", "d", "e", "f", "g", "h", "i", "j", "k", "l", "m", "n", "o", "p", "q", "r", "s", "t", "u", "v", "w", "x", "y", "z">>

\* str.lower(), one character
lower_char(c) ==
    IF \E i \in 1..26 : UpperCase[i] = c THEN LowerCase[CHOOSE i \in 1..26 : UpperCase[i] = c] ELSE c

\* str.lower()
lower(s) ==
    [i \in 1..Len(s) |-> lower_char(s[i])]

REDACT_KEYS ==
    {<<"p", "a", "s", "s", "w", "o", "r", "d">>, <<"t", "o", "k", "e", "n">>, <<"a", "p", "i", "_", "k", "e", "y">>,
     <<"s", "e", "c", "r", "e", "t">>, <<"a", "u", "t", "h", "o", "r", "i", "z", "a", "t", "i", "o", "n">>}

\* "***REDACTED***"
Mask == <<"*", "*", "*", "R", "E", "D", "A", "C", "T", "E", "D", "*", "*", "*">>

\* mutant: the key is compared as written, not lower-cased
RedactItem_case_sensitive(item, v) ==
    IF item.k \in REDACT_KEYS THEN Item(item.k, Str(Mask)) ELSE Item(item.k, v)

\* one item of a dict: v is redact(item.v)
RedactItem(item, v) ==
    IF lower(item.k) \in REDACT_KEYS THEN Item(item.k, Str(Mask)) ELSE Item(item.k, v)

RECURSIVE redact(_)
redact(obj) ==
    IF obj.t = "dict" THEN Dict([i \in 1..Len(obj.items) |-> RedactItem(obj.items[i], redact(obj.items[i].v))])
    ELSE IF obj.t = "list" THEN List([i \in 1..Len(obj.items) |-> redact(obj.items[i])])
    ELSE obj

\* a string value the tests of the model use
Scalar == Str(<<"v">>)

\* Python's None, and a value that is not None
None == <<>>
Some(x) == <<x>>

\* json.dumps with its default separators (", " and ": ").  The texts of the
\* model hold no quote, no backslash and no non-ASCII character, so that a
\* string is written between quotes as it is.
Quote(s) == <<"\"">> \o s \o <<"\"">>

RECURSIVE DumpJoin(_, _)
DumpJoin(parts, i) ==
    IF i > Len(parts) THEN <<>>
    ELSE (IF i > 1 THEN <<",", " ">> ELSE <<>>) \o parts[i] \o DumpJoin(parts, i + 1)

RECURSIVE json_dumps(_)
json_dumps(v) ==
    IF v.t = "str" THEN Quote(v.s)
    ELSE IF v.t = "dict"
    THEN <<"{">> \o DumpJoin([i \in 1..Len(v.items) |-> Quote(v.items[i].k) \o <<":", " ">> \o json_dumps(v.items[i].v)], 1) \o <<"}">>
    ELSE <<"[">> \o DumpJoin([i \in 1..Len(v.items) |-> json_dumps(v.items[i])], 1) \o <<"]">>

\* json.loads of a text json.dumps wrote: ParseValue(t, i) reads the value
\* that starts at t[i] and answers [v, n], the value and the index after it
ClosingQuote(t, i) ==
    CHOOSE j \in i..Len(t) : t[j] = "\"" /\ \A k \in i..(j - 1) : t[k] # "\""

ParsedString(t, i, j) ==
    [v |-> Str(SubSeq(t, i + 1, j - 1)), n |-> j + 1]

RECURSIVE ParseValue(_, _)
RECURSIVE ParseItems(_, _, _, _)
RECURSIVE ParseItemValue(_, _, _, _)
RECURSIVE ParseNext(_, _, _, _)

ParseValue(t, i) ==
    IF t[i] = "\"" THEN ParsedString(t, i, ClosingQuote(t, i + 1))
    ELSE IF t[i] = "{"
    THEN (IF t[i + 1] = "}" THEN [v |-> Dict(<<>>), n |-> i + 2] ELSE ParseItems(t, i + 1, "dict", <<>>))
    ELSE (IF t[i + 1] = "]" THEN [v |-> List(<<>>), n |-> i + 2] ELSE ParseItems(t, i + 1, "list", <<>>))

\* after the items in acc, the text has "," and another item, or the bracket
ParseNext(t, n, kind, acc) ==
    IF t[n] = "," THEN ParseItems(t, n + 2, kind, acc) ELSE [v |-> [t |-> kind, items |-> acc], n |-> n + 1]

\* key is the parsed key of a dict item (None in a list), val the parsed value
ParseItemValue(t, kind, acc, kv) ==
    ParseNext(t, kv.val.n, kind, Append(acc, IF kind = "dict" THEN Item(kv.key.v.s, kv.val.v) ELSE kv.val.v))

ParseItems(t, i, kind, acc) ==
    IF kind = "dict"
    THEN ParseItemValue(t, kind, acc, [key |-> ParseValue(t, i), val |-> ParseValue(t, ClosingQuote(t, i + 1) + 3)])
    ELSE ParseItemValue(t, kind, acc, [key |-> None, val |-> ParseValue(t, i)])

json_loads(t) == ParseValue(t, 1).v

\* the order of str: by code point, character by character
CodePoints == UpperCase \o <<"_">> \o LowerCase

ord(c) == CHOOSE i \in 1..Len(CodePoints) : CodePoints[i] = c

RECURSIVE TextLess(_, _)
TextLess(a, b) ==
    IF b = <<>> THEN FALSE
    ELSE IF a = <<>> THEN TRUE
    ELSE IF Head(a) # Head(b) THEN ord(Head(a)) < ord(Head(b))
    ELSE TextLess(Tail(a), Tail(b))

\* sorted(names), names a set of texts
sorted(names) ==
    CHOOSE f \in [1..Cardinality(names) -> names] : \A i, j \in 1..Cardinality(names) : i < j => TextLess(f[i], f[j])

\* SQLite's LIKE: "%" stands for any text, "_" for any one character, and
\* every other character for itself, upper and lower case alike (ASCII)
RECURSIVE Like(_, _)
Like(text, pattern) ==
    IF pattern = <<>> THEN text = <<>>
    ELSE IF Head(pattern) = "%" THEN \E k \in 0..Len(text) : Like(SubSeq(text, k + 1, Len(text)), Tail(pattern))
    ELSE IF text = <<>> THEN FALSE
    ELSE IF Head(pattern) = "_" THEN Like(Tail(text), Tail(pattern))
    ELSE lower_char(Head(text)) = lower_char(Head(pattern)) /\ Like(Tail(text), Tail(pattern))

\* what the callers of Spec pass: a step name, a metadata, an input, and the
\* dicts a direct call of the collector's API sends
StepNames == {<<"x">>}
Metas == {Dict(<<>>)}
Inputs == {Dict(<<>>)}
ApiBlobs == {Dict(<<>>), Dict(<<Item(<<"k">>, Scalar)>>)}

\* ---- pipeline threads
Threads == 1..MaxThreads

\* a thread outside every call of the client
Idle ==
    [pc |-> "idle", op |-> "none", path |-> <<>>, payload |-> <<>>, limit |-> 0,
     lines |-> <<>>, i |-> 0, remaining |-> <<>>, sent |-> 0]

\* ---- tags
\* nothing given and nothing added for an id
NoTags == [given |-> <<>>, added |-> <<>>]

\* list(dict.fromkeys(tags)): dict.fromkeys inserts each tag as a key, a key
\* already there keeps its place; keys are the keys inserted so far
RECURSIVE fromkeys(_, _)
fromkeys(tags, keys) ==
    IF tags = <<>> THEN keys
    ELSE fromkeys(Tail(tags), IF \E k \in 1..Len(keys) : keys[k] = Head(tags) THEN keys ELSE Append(keys, Head(tags)))

\* mutant: tag appends without looking at the tags already there
TagAppend_no_membership(rec_tags, t) ==
    IF t # "" THEN Append(rec_tags, t) ELSE rec_tags

\* StepHelper.tag, one turn of its loop: `if t and t not in self._rec.tags`
TagAppend(rec_tags, t) ==
    IF t # "" /\ \A k \in 1..Len(rec_tags) : rec_tags[k] # t THEN Append(rec_tags, t) ELSE rec_tags

\* StepHelper.tag(*tags) on a record whose tags are rec_tags
RECURSIVE StepHelper_tag(_, _)
StepHelper_tag(rec_tags, tags) ==
    IF tags = <<>> THEN rec_tags ELSE StepHelper_tag(TagAppend(rec_tags, Head(tags)), Tail(tags))

VARIABLES fail_open, qfile, executions, steps, scopes, nextId, now, last, submitted, received, kind, early, threads, default_tags, tagged, enqueues

vars == <<fail_open, qfile, executions, steps, scopes, nextId, now, last, submitted, received, kind, early, threads, default_tags, tagged, enqueues>>

\* ------------------------------------------------------------ collector
\* executions table: INSERT OR REPLACE on the primary key execution_id
ExecRow(exe) ==
    [execution_id |-> exe.execution_id, name |-> exe.name, app |-> exe.app, created_at_ms |-> exe.created_at_ms, metadata_json |-> json_dumps(exe.metadata)]

create_execution(rows, exe) ==
    [rows |-> {r \in rows : r.execution_id # exe.execution_id} \cup {ExecRow(exe)}, ok |-> TRUE]

\* steps table: INSERT OR REPLACE on the primary key step_id; execution_id is
\* the one of the URL path
StepRow(execution_id, step) ==
    [step_id |-> step.step_id, execution_id |-> execution_id, name |-> step.name, status |-> step.status,
     started_at_ms |-> step.started_at_ms, ended_at_ms |-> step.ended_at_ms, duration_ms |-> step.duration_ms,
     input_json |-> json_dumps(step.input), output_json |-> json_dumps(step.output), reasoning |-> step.reasoning,
     artifacts_json |-> json_dumps(step.artifacts), error_json |-> step.error]

\* mutant: a plain INSERT, which fails on a step_id already stored
add_step_insert(rows, execution_id, step) ==
    IF \E r \in rows : r.step_id = step.step_id
    THEN [rows |-> rows, ok |-> FALSE]
    ELSE [rows |-> rows \cup {StepRow(execution_id, step)}, ok |-> TRUE]

add_step(rows, execution_id, step) ==
    [rows |-> {r \in rows : r.step_id # step.step_id} \cup {StepRow(execution_id, step)}, ok |-> TRUE]

\* ---- the collector's reads
\* what a handler returns for an id with no stored execution
NotFound == [error |-> "not_found"]

\* `"error" in A`
IsNotFound(r) == "error" \in DOMAIN r

\* the dict a handler returns for one row of executions
ExecutionJson(exe) ==
    [execution_id |-> exe.execution_id, name |-> exe.name, app |-> exe.app, created_at_ms |-> exe.created_at_ms,
     metadata |-> json_loads(exe.metadata_json)]

\* the dict get_execution returns for one row of steps
StepJson(s) ==
    [step_id |-> s.step_id, name |-> s.name, status |-> s.status, started_at_ms |-> s.started_at_ms,
     ended_at_ms |-> s.ended_at_ms, duration_ms |-> s.duration_ms, input |-> json_loads(s.input_json),
     output |-> json_loads(s.output_json), reasoning |-> s.reasoning, artifacts |-> json_loads(s.artifacts_json),
     error |-> s.error_json]

\* SELECT * FROM steps WHERE execution_id=?
StepsOf(rows, execution_id) == {s \in rows : s.execution_id = execution_id}

\* the sequences that hold each element of a set once
Arrangements(rows) ==
    {f \in [1..Cardinality(rows) -> rows] : \A i, j \in 1..Cardinality(rows) : i # j => f[i] # f[j]}

\* ORDER BY started_at_ms ASC: every order of the rows SQL may answer with
\* (rows of equal started_at_ms come in any order)
Ascending(rows) ==
    {f \in Arrangements(rows) : \A i, j \in 1..Cardinality(rows) : i < j => f[i].started_at_ms <= f[j].started_at_ms}

\* mutant: an id that is not stored is answered with an empty execution
get_execution_never_missing(rows, execution_id, order) ==
    IF \A e \in rows : e.execution_id # execution_id
    THEN [execution |-> [execution_id |-> execution_id, name |-> <<>>, app |-> "", created_at_ms |-> 0, metadata |-> Dict(<<>>)],
          steps |-> [i \in 1..Len(order) |-> StepJson(order[i])]]
    ELSE [execution |-> ExecutionJson(CHOOSE e \in rows : e.execution_id = execution_id),
          steps |-> [i \in 1..Len(order) |-> StepJson(order[i])]]

\* get_execution(execution_id): order is the answer to the steps query
get_execution(rows, execution_id, order) ==
    IF \A e \in rows : e.execution_id # execution_id THEN NotFound
    ELSE [execution |-> ExecutionJson(CHOOSE e \in rows : e.execution_id = execution_id),
          steps |-> [i \in 1..Len(order) |-> StepJson(order[i])]]

\* d.get(key) on a parsed dict
DictGet(d, key) ==
    IF \E i \in 1..Len(d.items) : d.items[i].k = key
    THEN Some(d.items[CHOOSE i \in 1..Len(d.items) : d.items[i].k = key].v)
    ELSE None

\* diff: {s["name"]: s for s in steps} keeps, for each name, the last step
StepKeys(ss) == {ss[i].name : i \in 1..Len(ss)}

\* mutant: the first step of a name wins
StepNamed_first(ss, name) ==
    ss[CHOOSE i \in 1..Len(ss) : ss[i].name = name /\ \A j \in 1..(i - 1) : ss[j].name # name]

StepNamed(ss, name) ==
    ss[CHOOSE i \in 1..Len(ss) : ss[i].name = name /\ \A j \in (i + 1)..Len(ss) : ss[j].name # name]

_get_keywords(ss, name) ==
    IF name \in StepKeys(ss) THEN DictGet(StepNamed(ss, name).output, <<"k", "e", "y", "w", "o", "r", "d", "s">>) ELSE None

DiffRow(name, a, b) ==
    [step |-> name,
     a_status |-> IF name \in StepKeys(a) THEN Some(StepNamed(a, name).status) ELSE None,
     b_status |-> IF name \in StepKeys(b) THEN Some(StepNamed(b, name).status) ELSE None,
     a_duration_ms |-> IF name \in StepKeys(a) THEN Some(StepNamed(a, name).duration_ms) ELSE None,
     b_duration_ms |-> IF name \in StepKeys(b) THEN Some(StepNamed(b, name).duration_ms) ELSE None,
     a_keywords |-> _get_keywords(a, name),
     b_keywords |-> _get_keywords(b, name),
     a_reasoning |-> IF name \in StepKeys(a) THEN Some(StepNamed(a, name).reasoning) ELSE None,
     b_reasoning |-> IF name \in StepKeys(b) THEN Some(StepNamed(b, name).reasoning) ELSE None]

\* mutant: the names are sorted in descending order
DiffNames_descending(a, b) ==
    CHOOSE f \in Arrangements(StepKeys(a) \cup StepKeys(b)) : \A i, j \in 1..Len(f) : i < j => TextLess(f[j], f[i])

\* names = sorted(set(a_steps.keys()) | set(b_steps.keys()))
DiffNames(a, b) ==
    sorted(StepKeys(a) \cup StepKeys(b))

DiffRows(names, a, b) ==
    [i \in 1..Len(names) |-> DiffRow(names[i], a, b)]

\* diff(a, b): A and B are what get_execution answered for a and for b
diff(A, B) ==
    IF IsNotFound(A) \/ IsNotFound(B) THEN NotFound
    ELSE [a |-> A.execution, b |-> B.execution, diff |-> DiffRows(DiffNames(A.steps, B.steps), A.steps, B.steps)]

\* search(q, limit): like is "%q%"
SearchPattern(q) == <<"%">> \o q \o <<"%">>

\* FROM executions e LEFT JOIN steps s ON s.execution_id = e.execution_id:
\* one pair for each step of e, and one pair without a step when e has none
JoinRows(ex, st) ==
    {<<e, Some(s)>> : e \in ex, s \in st} \cup {<<e, None>> : e \in ex}

Joined(pair, st) ==
    IF pair[2] = None THEN StepsOf(st, pair[1].execution_id) = {} ELSE pair[2][1].execution_id = pair[1].execution_id

\* the WHERE clause; a LIKE on the NULL column of a pair without a step is not true
Where(pair, like) ==
    \/ Like(pair[1].name, like)
    \/ Like(pair[1].metadata_json, like)
    \/ /\ pair[2] # None
       /\ \/ Like(pair[2][1].name, like)
          \/ Like(pair[2][1].reasoning, like)
          \/ Like(pair[2][1].input_json, like)
          \/ Like(pair[2][1].output_json, like)
          \/ Like(pair[2][1].artifacts_json, like)

\* mutant: SELECT without DISTINCT, one row for each pair
Select_all(pairs) ==
    {[row |-> p[1], of |-> p[2]] : p \in pairs}

\* SELECT DISTINCT e.execution_id, e.name, e.app, e.created_at_ms, e.metadata_json
SelectDistinct(pairs) ==
    {[row |-> p[1], of |-> None] : p \in pairs}

search_rows(ex, st, q) ==
    SelectDistinct({p \in JoinRows(ex, st) : Joined(p, st) /\ Where(p, SearchPattern(q))})

\* ORDER BY e.created_at_ms DESC: every order SQL may answer with
Descending(rows) ==
    {f \in Arrangements(rows) : \A i, j \in 1..Cardinality(rows) : i < j => f[i].row.created_at_ms >= f[j].row.created_at_ms}

\* LIMIT ?: a negative limit is no limit (SQLite)
Limited(n, limit) ==
    IF limit < 0 \/ limit > n THEN n ELSE limit

\* search: order is the answer to the query before LIMIT
search(order, limit) ==
    [i \in 1..Limited(Len(order), limit) |-> ExecutionJson(order[i].row)]

\* the route an HTTP POST reaches.  db is [executions, steps, received]:
\* the two tables, and (history) the body of the last request each route
\* received for each id
ExecPath == <<"executions">>
StepPath(execution_id) == <<"executions", execution_id, "steps">>

RouteExec(db, payload, r) ==
    [db |-> [db EXCEPT !.executions = r.rows, !.received = (<<"exec", payload.execution_id>> :> ExecRow(payload)) @@ @], ok |-> r.ok]

\* mutant: the foreign key of steps is enforced, a step whose execution is
\* not stored is refused
RouteStep_foreign_key(db, execution_id, payload, r) ==
    IF \A e \in db.executions : e.execution_id # execution_id
    THEN [db |-> [db EXCEPT !.received = (<<"step", payload.step_id>> :> StepRow(execution_id, payload)) @@ @], ok |-> FALSE]
    ELSE [db |-> [db EXCEPT !.steps = r.rows, !.received = (<<"step", payload.step_id>> :> StepRow(execution_id, payload)) @@ @], ok |-> r.ok]

RouteStep(db, execution_id, payload, r) ==
    [db |-> [db EXCEPT !.steps = r.rows, !.received = (<<"step", payload.step_id>> :> StepRow(execution_id, payload)) @@ @], ok |-> r.ok]

Route(db, path, payload) ==
    IF path = ExecPath
    THEN RouteExec(db, payload, create_execution(db.executions, payload))
    ELSE RouteStep(db, path[2], payload, add_step(db.steps, path[2], payload))

\* --------------------------------------------------------------- client
\* requests.post(...) followed by raise_for_status(): r is the handler's result
Response(r, out) ==
    [db |-> r.db, raised |-> (out = "lost") \/ ~r.ok]

_post_raw(db, path, payload, out) ==
    IF out = "fail"
    THEN [db |-> db, raised |-> TRUE]
    ELSE Response(Route(db, path, payload), out)

NoFile == [exists |-> FALSE, lines |-> <<>>]

\* bytes of one line of the queue file, json.dumps(record) + "\n": a step
\* record serialises to more bytes than an execution record
LineBytes(line) ==
    IF line.path = ExecPath THEN 1 ELSE 2

RECURSIVE FileSize(_)
FileSize(lines) ==
    IF lines = <<>> THEN 0 ELSE LineBytes(Head(lines)) + FileSize(Tail(lines))

\* mutant: the cap keeps the older half, lines[: len // 2]
Keep_older_half(q) ==
    IF q.exists /\ FileSize(q.lines) > max_queue_bytes
    THEN SubSeq(q.lines, 1, Len(q.lines) \div 2)
    ELSE q.lines

\* mutant: the cap evicts nothing
Keep_all(q) ==
    q.lines

\* _enqueue: the size cap (drop lines[: len // 2]), then the append
Keep(q) ==
    IF q.exists /\ FileSize(q.lines) > max_queue_bytes
    THEN SubSeq(q.lines, (Len(q.lines) \div 2) + 1, Len(q.lines))
    ELSE q.lines

\* mutant: the record is written before the lines already there
_enqueue_first(q, path, payload, t) ==
    [exists |-> TRUE, lines |-> <<[path |-> path, payload |-> payload, queued_at_ms |-> t]>> \o Keep(q)]

_enqueue(q, path, payload, t) ==
    [exists |-> TRUE, lines |-> Append(Keep(q), [path |-> path, payload |-> payload, queued_at_ms |-> t])]

\* the loop of flush: acc is [db, remaining, sent, calls]; calls lists, for
\* every _post_raw the loop made, the line sent and what became of it
FlushSkip(acc, line) ==
    [acc EXCEPT !.remaining = Append(@, line)]

\* mutant: a line whose re-delivery failed is not kept
FlushSent_drops_failed(acc, line, i, out, r) ==
    IF r.raised
    THEN [acc EXCEPT !.db = r.db, !.calls = Append(@, [line |-> i, out |-> out, raised |-> TRUE])]
    ELSE [acc EXCEPT !.db = r.db, !.sent = @ + 1, !.calls = Append(@, [line |-> i, out |-> out, raised |-> FALSE])]

FlushSent(acc, line, i, out, r) ==
    IF r.raised
    THEN [acc EXCEPT !.db = r.db, !.remaining = Append(@, line), !.calls = Append(@, [line |-> i, out |-> out, raised |-> TRUE])]
    ELSE [acc EXCEPT !.db = r.db, !.sent = @ + 1, !.calls = Append(@, [line |-> i, out |-> out, raised |-> FALSE])]

FlushStep(acc, line, i, limit, out) ==
    IF acc.sent >= limit
    THEN FlushSkip(acc, line)
    ELSE FlushSent(acc, line, i, out, _post_raw(acc.db, line.path, line.payload, out))

RECURSIVE FlushLoop(_, _, _, _, _)
FlushLoop(lines, i, limit, outs, acc) ==
    IF i > Len(lines) THEN acc
    ELSE FlushLoop(lines, i + 1, limit, outs, FlushStep(acc, lines[i], i, limit, outs[i]))

\* mutant: the file is rewritten even when nothing remains
FlushWrite_never_unlinks(acc) ==
    [q |-> [exists |-> TRUE, lines |-> acc.remaining], db |-> acc.db, calls |-> acc.calls]

\* the end of flush: rewrite the file with the remaining lines, or unlink it
FlushWrite(acc) ==
    [q |-> IF acc.remaining # <<>> THEN [exists |-> TRUE, lines |-> acc.remaining] ELSE NoFile,
     db |-> acc.db, calls |-> acc.calls]

\* flush(limit): [q, db, calls]
flush(q, db, limit, outs) ==
    IF ~q.exists THEN [q |-> q, db |-> db, calls |-> <<>>]
    ELSE IF q.lines = <<>> THEN [q |-> q, db |-> db, calls |-> <<>>]
    ELSE FlushWrite(FlushLoop(q.lines, 1, limit, outs, [db |-> db, remaining |-> <<>>, sent |-> 0, calls |-> <<>>]))

\* mutant: the except branch raises whatever fail_open says
PostSent_always_raises(f, s, fo, path, payload, t) ==
    [q |-> IF s.raised THEN _enqueue(f.q, path, payload, t) ELSE f.q, db |-> s.db, raised |-> s.raised,
     enqueued |-> s.raised, flushq |-> f.q, flushcalls |-> f.calls]

\* mutant: fail-closed raises before it enqueues
PostSent_raises_unqueued(f, s, fo, path, payload, t) ==
    [q |-> IF s.raised /\ fo THEN _enqueue(f.q, path, payload, t) ELSE f.q, db |-> s.db, raised |-> s.raised /\ ~fo,
     enqueued |-> s.raised /\ fo, flushq |-> f.q, flushcalls |-> f.calls]

\* mutant: the record is enqueued whether or not the send succeeded
PostSent_always_enqueues(f, s, fo, path, payload, t) ==
    [q |-> _enqueue(f.q, path, payload, t), db |-> s.db, raised |-> s.raised /\ ~fo,
     enqueued |-> TRUE, flushq |-> f.q, flushcalls |-> f.calls]

\* _post after its flush (f) and its direct send (s): the except branch
\* enqueues, and raises unless fail_open
PostSent(f, s, fo, path, payload, t) ==
    [q |-> IF s.raised THEN _enqueue(f.q, path, payload, t) ELSE f.q,
     db |-> s.db,
     raised |-> s.raised /\ ~fo,
     enqueued |-> s.raised,
     flushq |-> f.q,
     flushcalls |-> f.calls]

PostFlushed(f, fo, path, payload, sendOut, t) ==
    PostSent(f, _post_raw(f.db, path, payload, sendOut), fo, path, payload, t)

_post(q, db, fo, path, payload, outs, sendOut, t) ==
    PostFlushed(flush(q, db, POST_FLUSH_LIMIT, outs), fo, path, payload, sendOut, t)

\* ---- the queue file on a filesystem that fails
\* What the filesystem does to the queue path during one handler:
\*   "none"         every operation works
\*   "write"        the operations that write (write_text, open for append,
\*                  unlink) raise OSError; stat and read work
\*   "stat_raises"  every operation raises OSError (EACCES, ENAMETOOLONG),
\*                  and Path.exists() lets it through (pathlib re-raises an
\*                  OSError of stat other than ENOENT, ENOTDIR, EBADF, ELOOP)
\*   "stat_false"   every operation raises, and Path.exists() answers False
\*                  (the pathlib versions that swallow every OSError)
IoFaults == {"none", "write", "stat_raises", "stat_false"}

OsError == [type |-> "OSError", message |-> "stat"]

\* _enqueue under a fault: `except Exception: return` leaves the file as it is
_enqueue_io(q, path, payload, t, fs) ==
    IF fs = "none" THEN _enqueue(q, path, payload, t) ELSE q

\* flush under a fault of the writes: f is what flush does on a filesystem
\* that works; the sends were made, write_text or unlink raised inside the
\* try, the file is as it was
FlushUnwritten(q, f) ==
    [q |-> q, db |-> f.db, calls |-> f.calls, raised |-> NoError]

FlushWritten(f) ==
    [q |-> f.q, db |-> f.db, calls |-> f.calls, raised |-> NoError]

\* flush(limit) under a fault: [q, db, calls, raised]; p.exists() is called
\* before the try
flush_io(q, db, limit, outs, fs) ==
    IF fs = "stat_raises" THEN [q |-> q, db |-> db, calls |-> <<>>, raised |-> OsError]
    ELSE IF fs = "stat_false" THEN [q |-> q, db |-> db, calls |-> <<>>, raised |-> NoError]
    ELSE IF fs = "write" THEN FlushUnwritten(q, flush(q, db, limit, outs))
    ELSE FlushWritten(flush(q, db, limit, outs))

\* _post under a fault, after its flush (f): an exception of flush is caught
\* by the try of _post, which enqueues and does not send
PostSkipped(f, fo, path, payload, t, fs) ==
    [q |-> _enqueue_io(f.q, path, payload, t, fs), db |-> f.db, raised |-> IF fo THEN NoError ELSE f.raised,
     enqueued |-> TRUE, flushq |-> f.q, flushcalls |-> f.calls, send |-> "skipped"]

PostSent_io(f, s, fo, path, payload, t, fs, sendOut) ==
    [q |-> IF s.raised THEN _enqueue_io(f.q, path, payload, t, fs) ELSE f.q, db |-> s.db,
     raised |-> IF s.raised /\ ~fo THEN DeliveryError ELSE NoError,
     enqueued |-> s.raised, flushq |-> f.q, flushcalls |-> f.calls, send |-> sendOut]

PostFlushed_io(f, fo, path, payload, sendOut, t, fs) ==
    IF f.raised # NoError THEN PostSkipped(f, fo, path, payload, t, fs)
    ELSE PostSent_io(f, _post_raw(f.db, path, payload, sendOut), fo, path, payload, t, fs, sendOut)

_post_io(q, db, fo, path, payload, outs, sendOut, t, fs) ==
    PostFlushed_io(flush_io(q, db, POST_FLUSH_LIMIT, outs, fs), fo, path, payload, sendOut, t, fs)

\* start_execution(name, metadata): id is the uuid4 drawn; p is what _post did
ExecutionPayload(id, name, metadata, t) ==
    [execution_id |-> id, name |-> name, app |-> "app", created_at_ms |-> t, metadata |-> redact(metadata)]

StartReturn(id, payload, p) ==
    [q |-> p.q, db |-> p.db, payload |-> payload, submissions |-> <<payload>>,
     flushq |-> p.flushq, flushcalls |-> p.flushcalls, enqueued |-> p.enqueued,
     raised |-> IF p.raised THEN DeliveryError ELSE NoError,
     returned |-> IF p.raised THEN 0 ELSE id]

StartPost(id, payload, q, db, fo, outs, sendOut, t) ==
    StartReturn(id, payload, _post(q, db, fo, ExecPath, payload, outs, sendOut, t))

start_execution(id, name, metadata, q, db, fo, outs, sendOut, t) ==
    StartPost(id, ExecutionPayload(id, name, metadata, t), q, db, fo, outs, sendOut, t)

\* step(execution_id, name): the StepRecord made on entry
StepRecord(id, execution_id, name, input, t) ==
    [name |-> name, execution_id |-> execution_id, step_id |-> id, started_at_ms |-> t, ended_at_ms |-> -1, status |-> "SUCCESS",
     input |-> input, output |-> Dict(<<>>), reasoning |-> <<>>, artifacts |-> Dict(<<>>), error |-> NoError]

\* the exit of a step scope: body is NoError when the body completed
\* normally and else the failure it raised.  `except Exception` sets ERROR
\* and re-raises; `finally` stamps the end, builds the payload and posts it.
\* A failure _post raises inside `finally` replaces the one in flight.
StepStatus(rec, body) ==
    IF body = NoError THEN "SUCCESS"
    ELSE IF IsException(body) THEN "ERROR" ELSE rec.status

StepError(rec, body) ==
    IF body # NoError /\ IsException(body) THEN body ELSE rec.error

\* mutant: the output goes into the payload as the handle set it
StepPayload_raw_output(rec, body, t) ==
    [step_id |-> rec.step_id, execution_id |-> rec.execution_id, name |-> rec.name,
     status |-> StepStatus(rec, body), started_at_ms |-> rec.started_at_ms, ended_at_ms |-> t,
     duration_ms |-> t - rec.started_at_ms, input |-> redact(rec.input), output |-> rec.output,
     reasoning |-> rec.reasoning, artifacts |-> redact(rec.artifacts), error |-> StepError(rec, body)]

StepPayload(rec, body, t) ==
    [step_id |-> rec.step_id, execution_id |-> rec.execution_id, name |-> rec.name,
     status |-> StepStatus(rec, body), started_at_ms |-> rec.started_at_ms, ended_at_ms |-> t,
     duration_ms |-> t - rec.started_at_ms, input |-> redact(rec.input), output |-> redact(rec.output),
     reasoning |-> rec.reasoning, artifacts |-> redact(rec.artifacts), error |-> StepError(rec, body)]

StepReturn(body, payload, p) ==
    [q |-> p.q, db |-> p.db, payload |-> payload, submissions |-> <<payload>>,
     flushq |-> p.flushq, flushcalls |-> p.flushcalls, enqueued |-> p.enqueued,
     raised |-> IF p.raised THEN DeliveryError ELSE body,
     returned |-> 0]

\* StepHelper.output(data): the record's output becomes data
StepHelper_output(rec, data) ==
    [rec EXCEPT !.output = data]

\* d[key] = value on a dict: the value of an item is replaced where it is, a
\* new key is added last
DictSet(d, key, value) ==
    IF \E i \in 1..Len(d.items) : d.items[i].k = key
    THEN Dict([i \in 1..Len(d.items) |-> IF d.items[i].k = key THEN Item(key, value) ELSE d.items[i]])
    ELSE Dict(Append(d.items, Item(key, value)))

\* StepHelper.artifact(key, value)
StepHelper_artifact(rec, key, value) ==
    [rec EXCEPT !.artifacts = DictSet(@, key, value)]

\* mutant: the record is posted in an `else` branch, not in `finally`
StepFinally_else(body, payload, q, db, fo, outs, sendOut, t) ==
    IF body = NoError
    THEN StepReturn(body, payload, _post(q, db, fo, StepPath(payload.execution_id), payload, outs, sendOut, t))
    ELSE [q |-> q, db |-> db, payload |-> payload, submissions |-> <<>>, flushq |-> q, flushcalls |-> <<>>,
          enqueued |-> FALSE, raised |-> body, returned |-> 0]

StepFinally(body, payload, q, db, fo, outs, sendOut, t) ==
    StepReturn(body, payload, _post(q, db, fo, StepPath(payload.execution_id), payload, outs, sendOut, t))

step_exit(rec, body, q, db, fo, outs, sendOut, t) ==
    StepFinally(body, StepPayload(rec, body, t), q, db, fo, outs, sendOut, t)

\* ------------------------------------------------------------------ state
\* fail_open    the client's configuration
\* default_tags the client's configuration: the tags of every execution
\* qfile        the queue file: whether it exists, and its lines
\* executions   the collector's executions table (a set of rows)
\* steps        the collector's steps table (a set of rows)
\* scopes       the step scopes open now, innermost last
\* nextId       the next uuid4
\* now          the clock
\* history, read by the properties only:
\* last         what the last handler did
\* submitted    per id, the payloads handed to _post
\* received     per route and id, the last body the collector received
\* kind         per id, what drew it: "exec", "step" or "none"
\* early        the step_ids a direct call of add_step stored while the
\*              execution of the URL was not stored
\* threads      per pipeline thread, where it stands inside _post or flush and
\*              its local variables (SpecThreads only)
\* enqueues     the lines handed to _enqueue so far, in order (SpecEnqueue only)
\* tagged       per id, the tag arguments given for it so far, in the order
\*              given: those of start_execution or step first, then those of
\*              each StepHelper.tag (SpecTags only)
Db == [executions |-> executions, steps |-> steps, received |-> received]

NoPayload == [none |-> TRUE]

NoOp ==
    [op |-> "none", payload |-> NoPayload, body |-> NoError, raised |-> NoError, returned |-> 0,
     qbefore |-> NoFile, flushq |-> NoFile, limit |-> 0, flushcalls |-> <<>>,
     send |-> "none", enqueued |-> FALSE, t |-> 0, resp |-> "none", prior |-> {}]

Init ==
    /\ fail_open \in BOOLEAN
    /\ qfile = NoFile
    /\ executions = {}
    /\ steps = {}
    /\ received = <<>>
    /\ scopes = <<>>
    /\ nextId = 1
    /\ now = 0
    /\ last = NoOp
    /\ submitted = [i \in 1..MaxIds |-> <<>>]
    /\ kind = [i \in 1..MaxIds |-> "none"]
    /\ early = {}
    /\ threads = [t \in Threads |-> Idle]
    /\ default_tags = <<>>
    /\ tagged = [i \in 1..MaxIds |-> NoTags]
    /\ enqueues = <<>>

\* the environment's choice for each line a flush may send
Outs(q) == [1..Len(q.lines) -> NetOutcome]

SetDb(db) ==
    /\ executions' = db.executions
    /\ steps' = db.steps
    /\ received' = db.received

LogPost(op, r, body, limit, sendOut) ==
    [NoOp EXCEPT !.op = op, !.payload = r.payload, !.body = body, !.raised = r.raised, !.returned = r.returned,
                 !.qbefore = qfile, !.flushq = r.flushq, !.limit = limit, !.flushcalls = r.flushcalls,
                 !.send = sendOut, !.enqueued = r.enqueued, !.t = now]

StartExecution(name, metadata, outs, sendOut) ==
    /\ nextId <= MaxIds
    /\ \E r \in {start_execution(nextId, name, metadata, qfile, Db, fail_open, outs, sendOut, now)} :
          /\ qfile' = r.q
          /\ SetDb(r.db)
          /\ submitted' = [submitted EXCEPT ![nextId] = @ \o r.submissions]
          /\ last' = LogPost("start_execution", r, NoError, POST_FLUSH_LIMIT, sendOut)
    /\ nextId' = nextId + 1
    /\ kind' = [kind EXCEPT ![nextId] = "exec"]
    /\ UNCHANGED <<fail_open, enqueues, default_tags, tagged, threads, scopes, now, early>>

\* ids start_execution has drawn so far
ExecutionIds == {i \in 1..MaxIds : kind[i] = "exec"}

StepEnter(execution_id, name, input) ==
    /\ nextId <= MaxIds
    /\ Len(scopes) < MaxDepth
    /\ scopes' = Append(scopes, StepRecord(nextId, execution_id, name, input, now))
    /\ nextId' = nextId + 1
    /\ kind' = [kind EXCEPT ![nextId] = "step"]
    /\ last' = [NoOp EXCEPT !.op = "step_enter"]
    /\ UNCHANGED <<fail_open, enqueues, default_tags, tagged, threads, qfile, executions, steps, received, now, submitted, early>>

StepExit(body, outs, sendOut) ==
    /\ scopes # <<>>
    /\ \E r \in {step_exit(scopes[Len(scopes)], body, qfile, Db, fail_open, outs, sendOut, now)} :
          /\ qfile' = r.q
          /\ SetDb(r.db)
          /\ submitted' = [submitted EXCEPT ![scopes[Len(scopes)].step_id] = @ \o r.submissions]
          /\ last' = LogPost("step_exit", r, body, POST_FLUSH_LIMIT, sendOut)
    /\ scopes' = SubSeq(scopes, 1, Len(scopes) - 1)
    /\ UNCHANGED <<fail_open, enqueues, default_tags, tagged, threads, nextId, now, kind, early>>

Flush(limit, outs) ==
    /\ \E f \in {flush(qfile, Db, limit, outs)} :
          /\ qfile' = f.q
          /\ SetDb(f.db)
          /\ last' = [NoOp EXCEPT !.op = "flush", !.qbefore = qfile, !.flushq = f.q, !.limit = limit, !.flushcalls = f.calls]
    /\ UNCHANGED <<fail_open, enqueues, default_tags, tagged, threads, scopes, nextId, now, submitted, kind, early>>

Tick ==
    /\ now < MaxTime
    /\ now' = now + 1
    /\ UNCHANGED <<fail_open, enqueues, default_tags, tagged, threads, qfile, executions, steps, received, scopes, nextId, last, submitted, kind, early>>

Next ==
    \/ \E name \in StepNames, metadata \in Metas, outs \in Outs(qfile), sendOut \in NetOutcome : StartExecution(name, metadata, outs, sendOut)
    \/ \E execution_id \in ExecutionIds, name \in StepNames, input \in Inputs : StepEnter(execution_id, name, input)
    \/ \E body \in BodyOutcomes, outs \in Outs(qfile), sendOut \in NetOutcome : StepExit(body, outs, sendOut)
    \/ \E limit \in 0..MaxLimit, outs \in Outs(qfile) : Flush(limit, outs)
    \/ Tick

Spec == Init /\ [][Next]_vars

\* ------------------------------------------ the client with secret values
\* The client as in Spec, called with a metadata, an input, an output and
\* artifacts that hold values under sensitive keys, below the top level and
\* in upper case too; the output and the artifacts are set through the
\* handle of an open scope.  The network delivers or fails.
Secret == Dict(<<Item(<<"u">>, List(<<Dict(<<Item(<<"T", "O", "K", "E", "N">>, Scalar)>>)>>))>>)

ArtifactKeys == {<<"a", "p", "i", "_", "k", "e", "y">>, <<"u">>}

Delivery == {"ok", "fail"}

HandleOutput(k, data) ==
    /\ k \in 1..Len(scopes)
    /\ scopes' = [scopes EXCEPT ![k] = StepHelper_output(@, data)]
    /\ last' = [NoOp EXCEPT !.op = "output"]
    /\ UNCHANGED <<fail_open, enqueues, default_tags, tagged, threads, qfile, executions, steps, received, nextId, now, submitted, kind, early>>

HandleArtifact(k, key, value) ==
    /\ k \in 1..Len(scopes)
    /\ scopes' = [scopes EXCEPT ![k] = StepHelper_artifact(@, key, value)]
    /\ last' = [NoOp EXCEPT !.op = "artifact"]
    /\ UNCHANGED <<fail_open, enqueues, default_tags, tagged, threads, qfile, executions, steps, received, nextId, now, submitted, kind, early>>

NextSecret ==
    \/ \E name \in StepNames, outs \in [1..Len(qfile.lines) -> Delivery], sendOut \in Delivery : StartExecution(name, Secret, outs, sendOut)
    \/ \E execution_id \in ExecutionIds, name \in StepNames : StepEnter(execution_id, name, Secret)
    \/ \E k \in 1..MaxDepth : HandleOutput(k, Secret)
    \/ \E k \in 1..MaxDepth, key \in ArtifactKeys : HandleArtifact(k, key, Secret)
    \/ \E body \in BodyOutcomes, outs \in [1..Len(qfile.lines) -> Delivery], sendOut \in Delivery : StepExit(body, outs, sendOut)
    \/ \E outs \in [1..Len(qfile.lines) -> Delivery] : Flush(MaxLimit, outs)

SpecSecret == Init /\ [][NextSecret]_vars

\* ------------------------------------ the client on a failing filesystem
\* start_execution and flush as in Spec, each call with what the filesystem
\* does to the queue path while it runs.
IoStartExecution(name, metadata, outs, sendOut, fs) ==
    /\ nextId <= MaxIds
    /\ \E payload \in {ExecutionPayload(nextId, name, metadata, now)} :
          \E p \in {_post_io(qfile, Db, fail_open, ExecPath, payload, outs, sendOut, now, fs)} :
              /\ qfile' = p.q
              /\ SetDb(p.db)
              /\ submitted' = [submitted EXCEPT ![nextId] = Append(@, payload)]
              /\ last' = [NoOp EXCEPT !.op = "start_execution", !.payload = payload, !.raised = p.raised,
                                      !.returned = IF p.raised = NoError THEN nextId ELSE 0, !.qbefore = qfile,
                                      !.flushq = p.flushq, !.limit = POST_FLUSH_LIMIT, !.flushcalls = p.flushcalls,
                                      !.send = p.send, !.enqueued = p.enqueued, !.t = now, !.resp = fs]
    /\ nextId' = nextId + 1
    /\ kind' = [kind EXCEPT ![nextId] = "exec"]
    /\ UNCHANGED <<fail_open, enqueues, default_tags, tagged, threads, scopes, now, early>>

IoFlush(limit, outs, fs) ==
    /\ \E f \in {flush_io(qfile, Db, limit, outs, fs)} :
          /\ qfile' = f.q
          /\ SetDb(f.db)
          /\ last' = [NoOp EXCEPT !.op = "flush", !.raised = f.raised, !.qbefore = qfile, !.flushq = f.q, !.limit = limit,
                                  !.flushcalls = f.calls, !.resp = fs]
    /\ UNCHANGED <<fail_open, enqueues, default_tags, tagged, threads, scopes, nextId, now, submitted, kind, early>>

NextIo ==
    \/ \E name \in StepNames, metadata \in Metas, outs \in Outs(qfile), sendOut \in NetOutcome, fs \in IoFaults :
          IoStartExecution(name, metadata, outs, sendOut, fs)
    \/ \E limit \in 0..MaxLimit, outs \in Outs(qfile), fs \in IoFaults : IoFlush(limit, outs, fs)
    \/ Tick

SpecIo == Init /\ [][NextIo]_vars

\* ------------------------------------------ two threads on one queue file
\* The client holds no lock: a thread inside _post or flush may be preempted
\* between any two operations on the queue file.  Each action below is one
\* such operation (or one HTTP call) of one thread; pc names the operation
\* the thread performs next.  The client of the threads is fail-open: what
\* _post raises after _enqueue changes nothing in the queue file.
Enter(tr, op, path, payload, limit) ==
    [tr EXCEPT !.pc = "flush_exists", !.op = op, !.path = path, !.payload = payload, !.limit = limit]

\* start_execution up to the call of _post
ThreadStartExecution(t, name) ==
    /\ fail_open
    /\ threads[t].pc = "idle"
    /\ nextId <= MaxIds
    /\ \E payload \in {ExecutionPayload(nextId, name, Dict(<<>>), now)} :
          /\ threads' = [threads EXCEPT ![t] = Enter(@, "post", ExecPath, payload, POST_FLUSH_LIMIT)]
          /\ submitted' = [submitted EXCEPT ![nextId] = Append(@, payload)]
    /\ nextId' = nextId + 1
    /\ kind' = [kind EXCEPT ![nextId] = "exec"]
    /\ UNCHANGED <<fail_open, enqueues, default_tags, tagged, qfile, executions, steps, received, scopes, now, last, early>>

\* a step scope whose body completes, up to the call of _post in `finally`
ThreadStep(t, execution_id, name) ==
    /\ fail_open
    /\ threads[t].pc = "idle"
    /\ nextId <= MaxIds
    /\ \E payload \in {StepPayload(StepRecord(nextId, execution_id, name, Dict(<<>>), now), NoError, now)} :
          /\ threads' = [threads EXCEPT ![t] = Enter(@, "post", StepPath(execution_id), payload, POST_FLUSH_LIMIT)]
          /\ submitted' = [submitted EXCEPT ![nextId] = Append(@, payload)]
    /\ nextId' = nextId + 1
    /\ kind' = [kind EXCEPT ![nextId] = "step"]
    /\ UNCHANGED <<fail_open, enqueues, default_tags, tagged, qfile, executions, steps, received, scopes, now, last, early>>

\* the pipeline calls flush(limit) itself
ThreadFlush(t, limit) ==
    /\ threads[t].pc = "idle"
    /\ qfile.exists
    /\ threads' = [threads EXCEPT ![t] = Enter(@, "flush", <<>>, <<>>, limit)]
    /\ UNCHANGED <<fail_open, enqueues, default_tags, tagged, qfile, executions, steps, received, scopes, nextId, now, last, submitted, kind, early>>

\* where a thread goes when its flush returns: _post goes on to the direct
\* send, a flush the pipeline called is over
Flushed(tr) ==
    IF tr.op = "post"
    THEN [tr EXCEPT !.pc = "send", !.lines = <<>>, !.i = 0, !.remaining = <<>>, !.sent = 0]
    ELSE Idle

\* flush: `if not p.exists(): return`
ThreadFlushExists(t) ==
    /\ threads[t].pc = "flush_exists"
    /\ threads' = [threads EXCEPT ![t] = IF qfile.exists THEN [@ EXCEPT !.pc = "flush_read"] ELSE Flushed(@)]
    /\ UNCHANGED <<fail_open, enqueues, default_tags, tagged, qfile, executions, steps, received, scopes, nextId, now, last, submitted, kind, early>>

\* flush: lines = p.read_text().splitlines(); read_text raises
\* FileNotFoundError when another thread has unlinked the file since exists()
ThreadFlushRead(t) ==
    /\ threads[t].pc = "flush_read"
    /\ threads' = [threads EXCEPT ![t] =
                      IF ~qfile.exists \/ qfile.lines = <<>> THEN Flushed(@)
                      ELSE [@ EXCEPT !.pc = "flush_line", !.lines = qfile.lines, !.i = 1]]
    /\ UNCHANGED <<fail_open, enqueues, default_tags, tagged, qfile, executions, steps, received, scopes, nextId, now, last, submitted, kind, early>>

\* one iteration of the loop of flush over the lines it read
FlushLine(tr, acc) ==
    [tr EXCEPT !.pc = IF tr.i = Len(tr.lines) THEN "flush_write" ELSE "flush_line",
               !.i = @ + 1, !.remaining = acc.remaining, !.sent = acc.sent]

ThreadFlushLine(t, out) ==
    /\ threads[t].pc = "flush_line"
    /\ \E acc \in {FlushStep([db |-> Db, remaining |-> threads[t].remaining, sent |-> threads[t].sent, calls |-> <<>>],
                             threads[t].lines[threads[t].i], threads[t].i, threads[t].limit, out)} :
          /\ SetDb(acc.db)
          /\ threads' = [threads EXCEPT ![t] = FlushLine(@, acc)]
    /\ UNCHANGED <<fail_open, enqueues, default_tags, tagged, qfile, scopes, nextId, now, last, submitted, kind, early>>

\* flush: p.write_text(remaining) or p.unlink(missing_ok=True)
ThreadFlushWrite(t) ==
    /\ threads[t].pc = "flush_write"
    /\ qfile' = IF threads[t].remaining # <<>> THEN [exists |-> TRUE, lines |-> threads[t].remaining] ELSE NoFile
    /\ threads' = [threads EXCEPT ![t] = Flushed(@)]
    /\ UNCHANGED <<fail_open, enqueues, default_tags, tagged, executions, steps, received, scopes, nextId, now, last, submitted, kind, early>>

\* _post: the direct send; a failure goes to _enqueue
ThreadSend(t, out) ==
    /\ threads[t].pc = "send"
    /\ \E s \in {_post_raw(Db, threads[t].path, threads[t].payload, out)} :
          /\ SetDb(s.db)
          /\ threads' = [threads EXCEPT ![t] = IF s.raised THEN [@ EXCEPT !.pc = "enqueue_stat"] ELSE Idle]
    /\ UNCHANGED <<fail_open, enqueues, default_tags, tagged, qfile, scopes, nextId, now, last, submitted, kind, early>>

\* _enqueue: `if p.exists() and p.stat().st_size > self.max_queue_bytes`
ThreadEnqueueStat(t) ==
    /\ threads[t].pc = "enqueue_stat"
    /\ threads' = [threads EXCEPT ![t].pc = IF qfile.exists /\ FileSize(qfile.lines) > max_queue_bytes
                                            THEN "enqueue_read" ELSE "enqueue_append"]
    /\ UNCHANGED <<fail_open, enqueues, default_tags, tagged, qfile, executions, steps, received, scopes, nextId, now, last, submitted, kind, early>>

\* _enqueue: lines = p.read_text().splitlines(); FileNotFoundError (the file
\* was unlinked since the stat) ends _enqueue in its `except Exception: return`
ThreadEnqueueRead(t) ==
    /\ threads[t].pc = "enqueue_read"
    /\ threads' = [threads EXCEPT ![t] = IF qfile.exists THEN [@ EXCEPT !.pc = "enqueue_rewrite", !.lines = qfile.lines] ELSE Idle]
    /\ UNCHANGED <<fail_open, enqueues, default_tags, tagged, qfile, executions, steps, received, scopes, nextId, now, last, submitted, kind, early>>

\* _enqueue: p.write_text(lines[len(lines) // 2 :])
ThreadEnqueueRewrite(t) ==
    /\ threads[t].pc = "enqueue_rewrite"
    /\ qfile' = [exists |-> TRUE, lines |-> Keep([exists |-> TRUE, lines |-> threads[t].lines])]
    /\ threads' = [threads EXCEPT ![t].pc = "enqueue_append", ![t].lines = <<>>]
    /\ UNCHANGED <<fail_open, enqueues, default_tags, tagged, executions, steps, received, scopes, nextId, now, last, submitted, kind, early>>

\* _enqueue: the append of the record to the file as it is now
ThreadEnqueueAppend(t) ==
    /\ threads[t].pc = "enqueue_append"
    /\ qfile' = [exists |-> TRUE,
                 lines |-> Append(qfile.lines, [path |-> threads[t].path, payload |-> threads[t].payload, queued_at_ms |-> now])]
    /\ threads' = [threads EXCEPT ![t] = Idle]
    /\ UNCHANGED <<fail_open, enqueues, default_tags, tagged, executions, steps, received, scopes, nextId, now, last, submitted, kind, early>>

\* the executions the steps of the threads belong to, and the limits the
\* pipeline passes to flush
ThreadExecutions == {1}

ThreadLimits == {MaxLimit}

NextThreads ==
    \E t \in Threads :
        \/ \E name \in StepNames : ThreadStartExecution(t, name)
        \/ \E execution_id \in ThreadExecutions, name \in StepNames : ThreadStep(t, execution_id, name)
        \/ \E limit \in ThreadLimits : ThreadFlush(t, limit)
        \/ ThreadFlushExists(t)
        \/ ThreadFlushRead(t)
        \/ \E out \in Delivery : ThreadFlushLine(t, out)
        \/ ThreadFlushWrite(t)
        \/ \E out \in Delivery : ThreadSend(t, out)
        \/ ThreadEnqueueStat(t)
        \/ ThreadEnqueueRead(t)
        \/ ThreadEnqueueRewrite(t)
        \/ ThreadEnqueueAppend(t)

SpecThreads == Init /\ [][NextThreads]_vars

\* ------------------------------------------------------ the client's tags
\* The handlers of Spec with their tags arguments: start_execution(name,
\* tags=...), step(execution_id, name, tags=...), StepHelper.tag(*tags) on an
\* open handle, and the exit of the scope.  The empty string is a tag like
\* any other for dict.fromkeys.
Tags == {"a", "b", ""}

TagLists == UNION {[1..n -> Tags] : n \in 0..MaxTags}

InitTags ==
    /\ fail_open = TRUE
    /\ qfile = NoFile
    /\ executions = {}
    /\ steps = {}
    /\ received = <<>>
    /\ scopes = <<>>
    /\ nextId = 1
    /\ now = 0
    /\ last = NoOp
    /\ submitted = [i \in 1..MaxIds |-> <<>>]
    /\ kind = [i \in 1..MaxIds |-> "none"]
    /\ early = {}
    /\ threads = [t \in Threads |-> Idle]
    /\ default_tags \in TagLists
    /\ tagged = [i \in 1..MaxIds |-> NoTags]
    /\ enqueues = <<>>

\* start_execution: "tags": list(dict.fromkeys((tags or []) + self.default_tags))
TagStartExecution(name, tags, sendOut) ==
    /\ nextId <= MaxTagIds
    /\ \E payload \in {ExecutionPayload(nextId, name, Dict(<<>>), now) @@ [tags |-> fromkeys(tags \o default_tags, <<>>)]} :
          \E outs \in Outs(qfile) :
              \E r \in {StartPost(nextId, payload, qfile, Db, fail_open, outs, sendOut, now)} :
                  /\ qfile' = r.q
                  /\ SetDb(r.db)
                  /\ submitted' = [submitted EXCEPT ![nextId] = @ \o r.submissions]
                  /\ last' = LogPost("start_execution", r, NoError, POST_FLUSH_LIMIT, sendOut)
    /\ nextId' = nextId + 1
    /\ kind' = [kind EXCEPT ![nextId] = "exec"]
    /\ tagged' = [tagged EXCEPT ![nextId].given = tags]
    /\ UNCHANGED <<fail_open, enqueues, default_tags, threads, scopes, now, early>>

\* step: tags=list(dict.fromkeys(tags or []))
TagStepEnter(execution_id, name, tags) ==
    /\ nextId <= MaxTagIds
    /\ Len(scopes) < MaxDepth
    /\ scopes' = Append(scopes, StepRecord(nextId, execution_id, name, Dict(<<>>), now) @@ [tags |-> fromkeys(tags, <<>>)])
    /\ nextId' = nextId + 1
    /\ kind' = [kind EXCEPT ![nextId] = "step"]
    /\ tagged' = [tagged EXCEPT ![nextId].given = tags]
    /\ last' = [NoOp EXCEPT !.op = "step_enter"]
    /\ UNCHANGED <<fail_open, enqueues, default_tags, threads, qfile, executions, steps, received, now, submitted, early>>

\* StepHelper.tag(*tags) on the handle of the k-th open scope
TagAdd(k, tags) ==
    /\ k \in 1..Len(scopes)
    /\ tags # <<>>
    /\ Len(tagged[scopes[k].step_id].added) + Len(tags) <= MaxAdded
    /\ scopes' = [scopes EXCEPT ![k].tags = StepHelper_tag(@, tags)]
    /\ tagged' = [tagged EXCEPT ![scopes[k].step_id].added = @ \o tags]
    /\ last' = [NoOp EXCEPT !.op = "tag", !.returned = scopes[k].step_id]
    /\ UNCHANGED <<fail_open, enqueues, default_tags, threads, qfile, executions, steps, received, nextId, now, submitted, kind, early>>

\* the exit of the innermost scope: "tags": rec.tags
TagStepExit(body, sendOut) ==
    /\ scopes # <<>>
    /\ \E payload \in {StepPayload(scopes[Len(scopes)], body, now) @@ [tags |-> scopes[Len(scopes)].tags]} :
          \E outs \in Outs(qfile) :
              \E r \in {StepFinally(body, payload, qfile, Db, fail_open, outs, sendOut, now)} :
                  /\ qfile' = r.q
                  /\ SetDb(r.db)
                  /\ submitted' = [submitted EXCEPT ![payload.step_id] = @ \o r.submissions]
                  /\ last' = LogPost("step_exit", r, body, POST_FLUSH_LIMIT, sendOut)
    /\ scopes' = SubSeq(scopes, 1, Len(scopes) - 1)
    /\ UNCHANGED <<fail_open, enqueues, default_tags, tagged, threads, nextId, now, kind, early>>

NextTags ==
    \/ \E name \in StepNames, tags \in TagLists : TagStartExecution(name, tags, "ok")
    \/ \E execution_id \in ExecutionIds, name \in StepNames, tags \in TagLists : TagStepEnter(execution_id, name, tags)
    \/ \E k \in 1..MaxDepth, tags \in TagLists : TagAdd(k, tags)
    \/ \E body \in {NoError, ValueErr} : TagStepExit(body, "ok")

SpecTags == InitTags /\ [][NextTags]_vars

\* -------------------------------------------------- _enqueue, call after call
\* A sustained outage as the queue file sees it: one _enqueue after the
\* other, of execution records (1 byte a line) and step records (2 bytes a
\* line), the n-th with id n.
EnqueuePath(k) == IF k = "exec" THEN ExecPath ELSE StepPath(1)

EnqueuePayload(k, id, t) ==
    IF k = "exec"
    THEN ExecutionPayload(id, <<"x">>, Dict(<<>>), t)
    ELSE StepPayload(StepRecord(id, 1, <<"x">>, Dict(<<>>), t), NoError, t)

Enqueue(k) ==
    /\ Len(enqueues) < MaxEnqueues
    /\ \E q \in {_enqueue(qfile, EnqueuePath(k), EnqueuePayload(k, Len(enqueues) + 1, now), now)} :
          /\ qfile' = q
          /\ enqueues' = Append(enqueues, q.lines[Len(q.lines)])
    /\ last' = [NoOp EXCEPT !.op = "enqueue", !.qbefore = qfile]
    /\ UNCHANGED <<fail_open, default_tags, tagged, threads, executions, steps, received, scopes, nextId, now, submitted, kind, early>>

NextEnqueue ==
    \E k \in {"exec", "step"} : Enqueue(k)

SpecEnqueue == Init /\ [][NextEnqueue]_vars

\* ------------------------------------------ delivery in the long run
\* start_execution and flush as in Spec, with metadata that may hold a value
\* json cannot encode (a datetime, a set, a Decimal: the type of metadata is
\* Dict[str, Any], and redact passes such a value through).  requests.post
\* encodes the body before it connects, and _enqueue opens the file for
\* append before it calls json.dumps: both raise TypeError on such a value.
Obj == [t |-> "obj"]

RECURSIVE Serializable(_)
Serializable(v) ==
    IF v.t = "obj" THEN FALSE
    ELSE IF v.t = "dict" THEN \A i \in 1..Len(v.items) : Serializable(v.items[i].v)
    ELSE IF v.t = "list" THEN \A i \in 1..Len(v.items) : Serializable(v.items[i])
    ELSE TRUE

\* _enqueue of a record json.dumps refuses: the cap has been applied and the
\* file opened (created when missing), nothing is written, the TypeError is
\* swallowed
_enqueue_refused(q) ==
    [exists |-> TRUE, lines |-> Keep(q)]

\* _post of such a record after its flush (f): no request is made
PostRefused(f, fo) ==
    [q |-> _enqueue_refused(f.q), db |-> f.db, raised |-> ~fo, enqueued |-> TRUE, flushq |-> f.q, flushcalls |-> f.calls]

_post_any(q, db, fo, path, payload, outs, sendOut, t) ==
    IF Serializable(payload.metadata)
    THEN _post(q, db, fo, path, payload, outs, sendOut, t)
    ELSE PostRefused(flush(q, db, POST_FLUSH_LIMIT, outs), fo)

LiveMetas == {Dict(<<>>), Dict(<<Item(<<"w">>, Obj)>>)}

LiveStartExecution(name, metadata, outs, sendOut) ==
    /\ nextId <= MaxIds
    /\ \E payload \in {ExecutionPayload(nextId, name, metadata, now)} :
          \E r \in {StartReturn(nextId, payload, _post_any(qfile, Db, fail_open, ExecPath, payload, outs, sendOut, now))} :
              /\ qfile' = r.q
              /\ SetDb(r.db)
              /\ submitted' = [submitted EXCEPT ![nextId] = @ \o r.submissions]
              /\ last' = LogPost("start_execution", r, NoError, POST_FLUSH_LIMIT, IF Serializable(metadata) THEN sendOut ELSE "none")
    /\ nextId' = nextId + 1
    /\ kind' = [kind EXCEPT ![nextId] = "exec"]
    /\ UNCHANGED <<fail_open, enqueues, default_tags, tagged, threads, scopes, now, early>>

\* a flush the pipeline calls with a limit of at least 1 while the collector
\* answers every request
DrainFlush ==
    \E limit \in 1..MaxLimit : Flush(limit, [k \in 1..Len(qfile.lines) |-> "ok"])

NextLive ==
    \/ \E name \in StepNames, metadata \in LiveMetas, outs \in Outs(qfile), sendOut \in NetOutcome :
          LiveStartExecution(name, metadata, outs, sendOut)
    \/ \E limit \in 0..MaxLimit, outs \in Outs(qfile) : Flush(limit, outs)

\* the pipeline keeps calling, and the collector is reachable again and
\* again: a flush that would deliver something is not put off for ever
SpecLive == Init /\ [][NextLive]_vars /\ WF_vars(DrainFlush)

\* ------------------------------------------------- the collector's API alone
\* Any client may call the two POST routes, with any body the request models
\* (ExecutionCreate, StepCreate) accept.
ApiExecutions ==
    [execution_id : 1..MaxApiIds, name : StepNames, app : {"app"}, created_at_ms : {0}, metadata : ApiBlobs]

ApiSteps ==
    [step_id : 1..MaxApiIds, execution_id : 1..MaxApiIds, name : StepNames, status : {"SUCCESS"}, started_at_ms : {0},
     ended_at_ms : {0}, duration_ms : {0}, input : {Dict(<<>>)}, output : ApiBlobs, reasoning : {<<>>},
     artifacts : {Dict(<<>>)}, error : {NoError}]

ApiCreateExecution(exe) ==
    /\ \E r \in {Route(Db, ExecPath, exe)} :
          /\ SetDb(r.db)
          /\ last' = [NoOp EXCEPT !.op = "create_execution", !.payload = exe, !.resp = IF r.ok THEN "ok" ELSE "error",
                                  !.prior = {x \in executions : x.execution_id = exe.execution_id}]
    /\ UNCHANGED <<fail_open, enqueues, default_tags, tagged, threads, qfile, scopes, nextId, now, submitted, kind, early>>

ApiAddStep(execution_id, step) ==
    /\ \E r \in {Route(Db, StepPath(execution_id), step)} :
          /\ SetDb(r.db)
          /\ last' = [NoOp EXCEPT !.op = "add_step", !.payload = step, !.resp = IF r.ok THEN "ok" ELSE "error",
                                  !.prior = {x \in steps : x.step_id = step.step_id}]
    /\ early' = IF \A e \in executions : e.execution_id # execution_id THEN early \cup {step.step_id} ELSE early
    /\ UNCHANGED <<fail_open, enqueues, default_tags, tagged, threads, qfile, scopes, nextId, now, submitted, kind>>

NextApi ==
    \/ \E exe \in ApiExecutions : ApiCreateExecution(exe)
    \/ \E step \in ApiSteps : ApiAddStep(step.execution_id, step)

SpecApi == Init /\ [][NextApi]_vars

\* ------------------------------------------- the collector with its reads
\* The records some clients send, each id with one body, delivered in any
\* order and any number of times, and the reads any client may make between
\* the deliveries.  Execution 1 runs y and then x twice, execution 2 runs y
\* and z; no execution has id 3.
Keywords == <<"k", "e", "y", "w", "o", "r", "d", "s">>

QExecution(id, name, t, metadata) ==
    [execution_id |-> id, name |-> name, app |-> "app", created_at_ms |-> t, metadata |-> metadata]

QStep(id, execution_id, name, status, times, output, reasoning, error) ==
    [step_id |-> id, execution_id |-> execution_id, name |-> name, status |-> status, started_at_ms |-> times[1],
     ended_at_ms |-> times[2], duration_ms |-> times[3], input |-> Dict(<<>>), output |-> output, reasoning |-> reasoning,
     artifacts |-> Dict(<<>>), error |-> error]

QExecutions ==
    {QExecution(1, <<"a", "b">>, 0, Dict(<<>>)),
     QExecution(2, <<"B">>, 1, Dict(<<Item(<<"m">>, Str(<<"a">>))>>))}

QSteps ==
    {QStep(1, 1, <<"y">>, "SUCCESS", <<0, 1, 1>>, Dict(<<Item(Keywords, List(<<Scalar>>))>>), <<"g">>, NoError),
     QStep(2, 1, <<"x">>, "SUCCESS", <<1, 1, 0>>, Dict(<<>>), <<>>, NoError),
     QStep(3, 2, <<"y">>, "ERROR", <<0, 0, 0>>, Dict(<<>>), <<"h">>, ValueErr),
     QStep(4, 2, <<"z">>, "SUCCESS", <<0, 1, 5>>, Dict(<<Item(Keywords, List(<<>>))>>), <<>>, NoError),
     QStep(5, 1, <<"x">>, "ERROR", <<1, 1, 0>>, Dict(<<>>), <<"t">>, ValueErr)}

\* the ids read: the two executions and an id never stored
QIds == 1..3

\* the texts searched for: a text that occurs in a name and in a metadata
\* in the other case, one that occurs in two steps of one execution and in a
\* step of the other, one in the reasoning of one step, one that occurs
\* nowhere, and a character LIKE reads as a wildcard
Queries == {<<"A">>, <<"y">>, <<"g">>, <<"q">>, <<"_">>}

\* limits of search: -1..MaxLimit
Limits == -1..MaxLimit

ReadOps == {"get_execution", "search", "diff"}

LogRead(op, args, result) ==
    [NoOp EXCEPT !.op = op, !.payload = args, !.returned = result]

\* A read leaves the tables as they are, so that a read after a read finds
\* what the same read finds before it: the model takes the reads after a write.
\* order is the answer SQL gives to the handler's query.
GetExecution(execution_id) ==
    /\ last.op \notin ReadOps
    /\ \E order \in Ascending(StepsOf(steps, execution_id)) :
          last' = LogRead("get_execution", [execution_id |-> execution_id], get_execution(executions, execution_id, order))
    /\ UNCHANGED <<fail_open, enqueues, default_tags, tagged, threads, qfile, executions, steps, received, scopes, nextId, now, submitted, kind, early>>

Search(q, limit) ==
    /\ last.op \notin ReadOps
    /\ \E order \in Descending(search_rows(executions, steps, q)) :
          last' = LogRead("search", [q |-> q, limit |-> limit, order |-> order], search(order, limit))
    /\ UNCHANGED <<fail_open, enqueues, default_tags, tagged, threads, qfile, executions, steps, received, scopes, nextId, now, submitted, kind, early>>

Diff(a, b) ==
    /\ last.op \notin ReadOps
    /\ \E oa \in Ascending(StepsOf(steps, a)), ob \in Ascending(StepsOf(steps, b)) :
          \E A \in {get_execution(executions, a, oa)}, B \in {get_execution(executions, b, ob)} :
              last' = LogRead("diff", [a |-> a, b |-> b, A |-> A, B |-> B], diff(A, B))
    /\ UNCHANGED <<fail_open, enqueues, default_tags, tagged, threads, qfile, executions, steps, received, scopes, nextId, now, submitted, kind, early>>

NextQuery ==
    \/ \E exe \in QExecutions : ApiCreateExecution(exe)
    \/ \E step \in QSteps : ApiAddStep(step.execution_id, step)
    \/ \E execution_id \in QIds : GetExecution(execution_id)
    \/ \E q \in Queries, limit \in Limits : Search(q, limit)
    \/ \E a \in QIds, b \in QIds : Diff(a, b)

SpecQuery == Init /\ [][NextQuery]_vars


\* ------------------------------------------------ diff with repeated step names
\* The collector's routes and diff as in SpecQuery, over executions whose
\* steps share a name: in execution 1 three steps named x, one that started
\* first and two that started together after it; in execution 2 one step
\* named x and one named y.
DExecutions ==
    {QExecution(1, <<"a">>, 0, Dict(<<>>)), QExecution(2, <<"b">>, 1, Dict(<<>>))}

DSteps ==
    {QStep(1, 1, <<"x">>, "SUCCESS", <<0, 1, 1>>, Dict(<<Item(Keywords, List(<<Scalar>>))>>), <<"g">>, NoError),
     QStep(2, 1, <<"x">>, "ERROR", <<1, 1, 0>>, Dict(<<>>), <<"t">>, ValueErr),
     QStep(3, 1, <<"x">>, "SUCCESS", <<1, 2, 1>>, Dict(<<Item(Keywords, List(<<>>))>>), <<"u">>, NoError),
     QStep(4, 2, <<"x">>, "SUCCESS", <<0, 0, 0>>, Dict(<<>>), <<>>, NoError),
     QStep(5, 2, <<"y">>, "SUCCESS", <<0, 0, 0>>, Dict(<<>>), <<"h">>, NoError)}

NextDup ==
    \/ \E exe \in DExecutions : ApiCreateExecution(exe)
    \/ \E step \in DSteps : ApiAddStep(step.execution_id, step)
    \/ \E a \in QIds, b \in QIds : Diff(a, b)

SpecDup == Init /\ [][NextDup]_vars

\* ---------------------------------------------------------- redact alone
\* The structures redact is applied to: every nesting of dicts and lists up
\* to MaxNest levels over a scalar, with keys that match REDACT_KEYS in
\* mixed, upper and lower case and keys that do not.
FirstKeys == {<<"T", "o", "k", "e", "n">>, <<"n", "a", "m", "e">>}
SecondKeys == {<<"S", "E", "C", "R", "E", "T">>, <<"i", "d">>}

RECURSIVE Values(_)
Values(d) ==
    IF d = 0 THEN {Scalar}
    ELSE {Scalar, Dict(<<>>), List(<<>>)}
         \cup {Dict(<<Item(k, v)>>) : k \in FirstKeys, v \in Values(d - 1)}
         \cup {Dict(<<Item(k, v), Item(k2, Scalar)>>) : k \in FirstKeys, k2 \in SecondKeys, v \in Values(d - 1)}
         \cup {List(<<v>>) : v \in Values(d - 1)}
         \cup {List(<<Scalar, v>>) : v \in Values(d - 1)}

InitRedact ==
    /\ fail_open = TRUE
    /\ qfile = NoFile
    /\ executions = {}
    /\ steps = {}
    /\ received = <<>>
    /\ scopes = <<>>
    /\ nextId = 1
    /\ now = 0
    /\ \E obj \in Values(MaxNest) : last = [NoOp EXCEPT !.op = "argument", !.payload = obj]
    /\ submitted = [i \in 1..MaxIds |-> <<>>]
    /\ kind = [i \in 1..MaxIds |-> "none"]
    /\ early = {}
    /\ threads = [t \in Threads |-> Idle]
    /\ default_tags = <<>>
    /\ tagged = [i \in 1..MaxIds |-> NoTags]
    /\ enqueues = <<>>

\* one call redact(obj): last.payload is the argument, as it is after the call
Redact ==
    /\ last.op = "argument"
    /\ last' = [last EXCEPT !.op = "redact", !.returned = redact(last.payload)]
    /\ UNCHANGED <<fail_open, enqueues, default_tags, tagged, threads, qfile, executions, steps, received, scopes, nextId, now, submitted, kind, early>>

SpecRedact == InitRedact /\ [][Redact]_vars

\* ------------------------------------------------------------ properties
\* `last` describes the handler that led to the current state: every action
\* but Tick sets it, and Tick changes the clock alone.
IsPost == last.op \in {"start_execution", "step_exit"}

\* where the record submitted last is now
LastPath ==
    IF last.op = "start_execution" THEN ExecPath ELSE StepPath(last.payload.execution_id)

LastStored ==
    IF last.op = "start_execution"
    THEN ExecRow(last.payload) \in executions
    ELSE StepRow(last.payload.execution_id, last.payload) \in steps

LastQueued ==
    \E k \in 1..Len(qfile.lines) : qfile.lines[k].payload = last.payload

\* the record submitted last is the last line of the queue file
LastAppended ==
    /\ qfile.exists
    /\ qfile.lines # <<>>
    /\ qfile.lines[Len(qfile.lines)].payload = last.payload
    /\ qfile.lines[Len(qfile.lines)].path = LastPath

\* C1: when the body of a step scope raises a failure E (an Exception), the
\* step record is submitted with status ERROR and E's kind and message, it is
\* delivered or queued, and the exception that reaches the caller is E, for
\* every fail_open setting and every outcome of the delivery.
C1_BodyFailureReachesCaller ==
    (last.op = "step_exit" /\ last.body # NoError /\ IsException(last.body)) =>
        /\ last.payload.status = "ERROR"
        /\ last.payload.error = last.body
        /\ (LastStored \/ LastQueued)
        /\ last.raised = last.body

OpenIds == {scopes[k].step_id : k \in 1..Len(scopes)}

C5_OneSubmissionPerScope ==
    /\ \A i \in 1..MaxIds :
          /\ (i \in OpenIds => submitted[i] = <<>>)
          /\ ((kind[i] = "step" /\ i \notin OpenIds) =>
                 /\ Len(submitted[i]) = 1
                 /\ submitted[i][1].step_id = i
                 /\ submitted[i][1].ended_at_ms >= 0)
    /\ (last.op = "step_exit" =>
          /\ last.payload.ended_at_ms = last.t
          /\ submitted[last.payload.step_id] = <<last.payload>>)

C5_Witness ==
    /\ last.op = "step_exit"
    /\ last.body = ValueErr
    /\ submitted[last.payload.step_id] = <<last.payload>>
    /\ OpenIds # {}

\* C6: after a flush the queue holds exactly the lines whose re-delivery
\* failed and the lines that were not attempted, in their original order;
\* every line dropped was delivered; the file is gone iff no line remains.
HasFlush == last.op \in {"start_execution", "step_exit", "flush"}

FlushFailed == {last.flushcalls[k].line : k \in {j \in 1..Len(last.flushcalls) : last.flushcalls[j].raised}}

FlushAttempted == {last.flushcalls[k].line : k \in 1..Len(last.flushcalls)}

FlushKept == {i \in 1..Len(last.qbefore.lines) : i \in FlushFailed \/ i \notin FlushAttempted}

\* the lines of s at the indices in keep, in order
RECURSIVE Pick(_, _, _)
Pick(s, keep, i) ==
    IF i > Len(s) THEN <<>>
    ELSE (IF i \in keep THEN <<s[i]>> ELSE <<>>) \o Pick(s, keep, i + 1)

LineStored(line) ==
    IF line.path = ExecPath
    THEN ExecRow(line.payload) \in executions
    ELSE StepRow(line.path[2], line.payload) \in steps

AllDelivered == \A k \in 1..Len(last.flushcalls) : last.flushcalls[k].out = "ok"

C8_AttemptsBoundedByLimit ==
    HasFlush => Len(last.flushcalls) <= last.limit

\* C9: an enqueue onto a file larger than max_queue_bytes with n lines drops
\* the first n \div 2 lines, keeps the others in order and appends the new
\* record; an enqueue onto a file within the cap drops nothing.
OverCap(q) == q.exists /\ FileSize(q.lines) > max_queue_bytes

C10_UpsertKeepsLatest ==
    /\ \A a, b \in executions : a.execution_id = b.execution_id => a = b
    /\ \A a, b \in steps : a.step_id = b.step_id => a = b
    /\ \A k \in DOMAIN received :
          IF k[1] = "exec" THEN {x \in executions : x.execution_id = k[2]} = {received[k]}
          ELSE {x \in steps : x.step_id = k[2]} = {received[k]}
    /\ \A x \in executions : <<"exec", x.execution_id>> \in DOMAIN received
    /\ \A x \in steps : <<"step", x.step_id>> \in DOMAIN received
    /\ last.resp # "error"

C10_Witness ==
    /\ last.op = "add_step"
    /\ last.resp = "ok"
    /\ last.prior # {}
    /\ last.prior # {StepRow(last.payload.execution_id, last.payload)}
    /\ {x \in steps : x.step_id = last.payload.step_id} = {StepRow(last.payload.execution_id, last.payload)}

\* C14: redact returns a value of the same structure as its argument in
\* which the value under every key that matches, whatever its case, one of
\* password, token, api_key, secret, authorization is the mask, at every
\* nesting depth of dicts and lists, and every other value equals the
\* argument's; the argument is as it was.
ClaimedKeys ==
    {<<"p", "a", "s", "s", "w", "o", "r", "d">>, <<"t", "o", "k", "e", "n">>, <<"a", "p", "i", "_", "k", "e", "y">>,
     <<"s", "e", "c", "r", "e", "t">>, <<"a", "u", "t", "h", "o", "r", "i", "z", "a", "t", "i", "o", "n">>}

SameButCase(a, b) ==
    /\ Len(a) = Len(b)
    /\ \A i \in 1..Len(a) : lower_char(a[i]) = lower_char(b[i])

SensitiveKey(k) == \E w \in ClaimedKeys : SameButCase(k, w)

\* the value at index i of a dict or a list
Child(v, i) == IF v.t = "dict" THEN v.items[i].v ELSE v.items[i]

\* the positions of a value: the index paths from its root
RECURSIVE Paths(_)
Paths(v) ==
    IF v.t = "str" THEN {<<>>}
    ELSE {<<>>} \cup UNION {{<<i>> \o p : p \in Paths(Child(v, i))} : i \in 1..Len(v.items)}

RECURSIVE At(_, _)
At(v, p) == IF p = <<>> THEN v ELSE At(Child(v, p[1]), Tail(p))

Front(p) == SubSeq(p, 1, Len(p) - 1)

\* position p of v is the value of a dict item with a sensitive key
UnderSensitiveKey(v, p) ==
    /\ p # <<>>
    /\ At(v, Front(p)).t = "dict"
    /\ SensitiveKey(At(v, Front(p)).items[p[Len(p)]].k)

\* position p of v lies inside the value of a sensitive key
InsideSensitive(v, p) ==
    \E n \in 1..(Len(p) - 1) : UnderSensitiveKey(v, SubSeq(p, 1, n))

\* two values agree at their root: same kind, same scalar, same keys, same length
SameNode(a, b) ==
    /\ a.t = b.t
    /\ (a.t = "str" => a.s = b.s)
    /\ (a.t # "str" => Len(a.items) = Len(b.items))
    /\ (a.t = "dict" => \A i \in 1..Len(a.items) : a.items[i].k = b.items[i].k)

RedactedAs(in, out) ==
    /\ Paths(out) = {p \in Paths(in) : ~InsideSensitive(in, p)}
    /\ \A p \in Paths(out) :
          IF UnderSensitiveKey(in, p) THEN At(out, p) = Str(Mask) ELSE SameNode(At(in, p), At(out, p))

C14_RedactMasksSensitiveKeys ==
    last.op = "redact" => RedactedAs(last.payload, last.returned)

C14_Witness ==
    /\ last.op = "redact"
    /\ \E p \in Paths(last.payload) :
          /\ Len(p) = 3
          /\ UnderSensitiveKey(last.payload, p)
          /\ At(last.payload, Front(p)).items[p[3]].k \notin REDACT_KEYS
          /\ At(last.payload, p) = Scalar
          /\ At(last.returned, p) = Str(Mask)
    /\ \E p \in Paths(last.returned) : Len(p) = 3 /\ At(last.returned, p) = Scalar

\* C11: the tables hold exactly the records delivered so far, whatever the
\* order and the number of their deliveries (each id has one record); every
\* delivery is accepted, a step's before its execution's too; get_execution
\* of a stored execution returns every step delivered for it, those
\* delivered before the execution among them.
DeliveredExecutions == {e \in QExecutions : <<"exec", e.execution_id>> \in DOMAIN received}

DeliveredSteps == {x \in QSteps : <<"step", x.step_id>> \in DOMAIN received}

C11_ArrivalOrderTolerated ==
    /\ executions = {ExecRow(e) : e \in DeliveredExecutions}
    /\ steps = {StepRow(x.execution_id, x) : x \in DeliveredSteps}
    /\ early \subseteq {x.step_id : x \in steps}
    /\ (last.op \in {"create_execution", "add_step"} => last.resp = "ok")
    /\ ((last.op = "get_execution" /\ \E e \in DeliveredExecutions : e.execution_id = last.payload.execution_id) =>
           /\ ~IsNotFound(last.returned)
           /\ {last.returned.steps[i].step_id : i \in 1..Len(last.returned.steps)}
                 = {x.step_id : x \in {y \in DeliveredSteps : y.execution_id = last.payload.execution_id}})

C11_Witness ==
    /\ last.op = "get_execution"
    /\ ~IsNotFound(last.returned)
    /\ Len(last.returned.steps) = 3
    /\ \E i, j \in 1..3 : last.returned.steps[i].step_id \in early /\ last.returned.steps[j].step_id \notin early

\* C16, as claimed: diff of two stored executions has one row for each step
\* name of either, in strictly ascending order of the names; on each side
\* status, duration, keywords and reasoning are None exactly when the side has
\* no step of that name, and else are the values of the side's step.
DiffFound == last.op = "diff" /\ ~IsNotFound(last.returned)

RowNames == {last.returned.diff[i].step : i \in 1..Len(last.returned.diff)}

SideNames(side) == {side.steps[i].name : i \in 1..Len(side.steps)}

DiffRowsSorted ==
    /\ RowNames = SideNames(last.payload.A) \cup SideNames(last.payload.B)
    /\ \A i, j \in 1..Len(last.returned.diff) : i < j => TextLess(last.returned.diff[i].step, last.returned.diff[j].step)

\* the keywords entry of a step's output, None when it has none
KeywordsOf(x) ==
    IF \E i \in 1..Len(x.output.items) : x.output.items[i].k = Keywords
    THEN Some(x.output.items[CHOOSE i \in 1..Len(x.output.items) : x.output.items[i].k = Keywords].v)
    ELSE None

\* the four values of a row for one side are those of the step x
SideShows(status, duration, keywords, reasoning, x) ==
    /\ status = Some(x.status)
    /\ duration = Some(x.duration_ms)
    /\ keywords = KeywordsOf(x)
    /\ reasoning = Some(x.reasoning)

SideAsClaimed(side, name, status, duration, keywords, reasoning) ==
    IF name \in SideNames(side)
    THEN /\ \E i \in 1..Len(side.steps) : side.steps[i].name = name /\ SideShows(status, duration, keywords, reasoning, side.steps[i])
         /\ status # None /\ duration # None /\ keywords # None /\ reasoning # None
    ELSE status = None /\ duration = None /\ keywords = None /\ reasoning = None

C16_DiffRowPerName ==
    DiffFound =>
        /\ DiffRowsSorted
        /\ \A i \in 1..Len(last.returned.diff) :
              /\ SideAsClaimed(last.payload.A, last.returned.diff[i].step, last.returned.diff[i].a_status,
                               last.returned.diff[i].a_duration_ms, last.returned.diff[i].a_keywords, last.returned.diff[i].a_reasoning)
              /\ SideAsClaimed(last.payload.B, last.returned.diff[i].step, last.returned.diff[i].b_status,
                               last.returned.diff[i].b_duration_ms, last.returned.diff[i].b_keywords, last.returned.diff[i].b_reasoning)

\* C16, amended: the same, but keywords is None also when the side's step of
\* that name has no keywords entry in its output: status, duration and
\* reasoning are None exactly when the side has no step of that name, and
\* keywords is None exactly when it has none or its step has no keywords.
SideAmended(side, name, status, duration, keywords, reasoning) ==
    IF name \in SideNames(side)
    THEN /\ \E i \in 1..Len(side.steps) : side.steps[i].name = name /\ SideShows(status, duration, keywords, reasoning, side.steps[i])
         /\ status # None /\ duration # None /\ reasoning # None
    ELSE status = None /\ duration = None /\ keywords = None /\ reasoning = None

C16_DiffRowPerNameOrNoKeywords ==
    DiffFound =>
        /\ DiffRowsSorted
        /\ \A i \in 1..Len(last.returned.diff) :
              /\ SideAmended(last.payload.A, last.returned.diff[i].step, last.returned.diff[i].a_status,
                             last.returned.diff[i].a_duration_ms, last.returned.diff[i].a_keywords, last.returned.diff[i].a_reasoning)
              /\ SideAmended(last.payload.B, last.returned.diff[i].step, last.returned.diff[i].b_status,
                             last.returned.diff[i].b_duration_ms, last.returned.diff[i].b_keywords, last.returned.diff[i].b_reasoning)

C16_Witness ==
    /\ DiffFound
    /\ last.payload.a = 1 /\ last.payload.b = 2
    /\ Len(last.returned.diff) = 3
    /\ last.returned.diff[1].step = <<"x">> /\ last.returned.diff[1].b_status = None /\ last.returned.diff[1].a_status # None
    /\ last.returned.diff[2].step = <<"y">> /\ last.returned.diff[2].a_keywords # None /\ last.returned.diff[2].b_keywords = None
    /\ last.returned.diff[3].step = <<"z">> /\ last.returned.diff[3].a_reasoning = None /\ last.returned.diff[3].b_reasoning # None
    /\ last.payload.A.steps[1].name = <<"y">>

\* C17: get_execution of an id with no stored execution returns not_found,
\* and of a stored one the execution; diff(a, b) returns not_found whenever a
\* or b has no stored execution, and the two executions with the diff rows
\* when both are stored.
Stored(id) == \E e \in executions : e.execution_id = id

C17_MissingIsNotFound ==
    /\ (last.op = "get_execution" =>
           /\ (~Stored(last.payload.execution_id) => last.returned = NotFound)
           /\ (Stored(last.payload.execution_id) =>
                  ~IsNotFound(last.returned) /\ last.returned.execution.execution_id = last.payload.execution_id))
    /\ (last.op = "diff" =>
           /\ ((~Stored(last.payload.a) \/ ~Stored(last.payload.b)) => last.returned = NotFound)
           /\ ((Stored(last.payload.a) /\ Stored(last.payload.b)) =>
                  /\ DOMAIN last.returned = {"a", "b", "diff"}
                  /\ last.returned.a.execution_id = last.payload.a
                  /\ last.returned.b.execution_id = last.payload.b))

C17_Witness ==
    /\ last.op = "diff"
    /\ Stored(last.payload.a)
    /\ ~Stored(last.payload.b)
    /\ steps # {}
    /\ last.returned = NotFound

\* C18: search(q, limit) returns an execution only if q occurs, upper and
\* lower case alike, in its name, in its metadata blob, or in the name, the
\* reasoning, the input blob, the output blob or the artifacts blob of one
\* of its steps, and returns every such execution that the limit leaves room
\* for, an execution without steps too.
Contains(text, q) ==
    \E k \in 0..(Len(text) - Len(q)) : \A i \in 1..Len(q) : lower_char(text[k + i]) = lower_char(q[i])

StepHas(x, q) ==
    \/ Contains(x.name, q)
    \/ Contains(x.reasoning, q)
    \/ Contains(x.input_json, q)
    \/ Contains(x.output_json, q)
    \/ Contains(x.artifacts_json, q)

ExecutionHas(e, q) ==
    \/ Contains(e.name, q)
    \/ Contains(e.metadata_json, q)
    \/ \E x \in steps : x.execution_id = e.execution_id /\ StepHas(x, q)

ReturnedIds == {last.returned[i].execution_id : i \in 1..Len(last.returned)}

C18_SearchIsSubstringMatch ==
    last.op = "search" =>
        /\ \A e \in executions : e.execution_id \in ReturnedIds => ExecutionHas(e, last.payload.q)
        /\ (last.payload.limit < 0 \/ Len(last.returned) < last.payload.limit) =>
               \A e \in executions : ExecutionHas(e, last.payload.q) => e.execution_id \in ReturnedIds

\* C19, as claimed: the result of search(q, limit) holds each execution at
\* most once, is in descending order of created_at_ms, has at most limit
\* entries, and these are the newest of the executions the query matches.
\* The executions matched are those of the order SQL answered with.
Matched == {last.payload.order[i].row : i \in 1..Len(last.payload.order)}

SearchDedupedSortedNewest ==
    /\ \A i, j \in 1..Len(last.returned) : i # j => last.returned[i].execution_id # last.returned[j].execution_id
    /\ \A i, j \in 1..Len(last.returned) : i < j => last.returned[i].created_at_ms >= last.returned[j].created_at_ms
    /\ ReturnedIds \subseteq {e.execution_id : e \in Matched}
    /\ Matched \subseteq executions
    /\ \A e \in Matched : e.execution_id \notin ReturnedIds =>
          \A i \in 1..Len(last.returned) : last.returned[i].created_at_ms >= e.created_at_ms

C19_SearchLimited ==
    last.op = "search" =>
        /\ SearchDedupedSortedNewest
        /\ Len(last.returned) <= last.payload.limit
        /\ (Len(last.returned) < last.payload.limit => ReturnedIds = {e.execution_id : e \in Matched})

\* C19, amended: the same for a limit >= 0, where the result has
\* min(limit, number of executions matched) entries; with a negative limit
\* the result holds every execution matched.
C19_SearchLimitedUnlessNegative ==
    last.op = "search" =>
        /\ SearchDedupedSortedNewest
        /\ (last.payload.limit >= 0 =>
               /\ Len(last.returned) <= last.payload.limit
               /\ (Len(last.returned) < last.payload.limit => ReturnedIds = {e.execution_id : e \in Matched}))
        /\ (last.payload.limit < 0 => ReturnedIds = {e.execution_id : e \in Matched})

C19_Witness ==
    /\ last.op = "search"
    /\ last.payload.q = <<"y">>
    /\ Cardinality({x \in steps : x.execution_id = 2 /\ StepHas(x, <<"y">>)}) = 2
    /\ last.payload.limit = 1
    /\ Cardinality(Matched) = 2
    /\ Len(last.returned) = 1
    /\ last.returned[1].execution_id = 2

\* C20: every step payload the client submits and every step row the
\* collector stores has duration_ms = ended_at_ms - started_at_ms >= 0.
DurationConsistent(x) ==
    /\ x.duration_ms = x.ended_at_ms - x.started_at_ms
    /\ x.duration_ms >= 0

C20_DurationConsistent ==
    /\ \A i \in 1..MaxIds : \A k \in 1..Len(submitted[i]) : kind[i] = "step" => DurationConsistent(submitted[i][k])
    /\ \A x \in steps : DurationConsistent(x)

\* C15: no payload handed to _post, no line of the queue file and no body
\* the collector received holds a value other than the mask under a
\* sensitive key, at any depth of the execution's metadata or of the step's
\* input, output and artifacts, the values set through the handle included.
Leaks(v) ==
    \E p \in Paths(v) : UnderSensitiveKey(v, p) /\ At(v, p) # Str(Mask)

PayloadLeaks(path, payload) ==
    IF path = ExecPath THEN Leaks(payload.metadata)
    ELSE Leaks(payload.input) \/ Leaks(payload.output) \/ Leaks(payload.artifacts)

RowLeaks(key, row) ==
    IF key[1] = "exec" THEN Leaks(json_loads(row.metadata_json))
    ELSE Leaks(json_loads(row.input_json)) \/ Leaks(json_loads(row.output_json)) \/ Leaks(json_loads(row.artifacts_json))

C13_QueueNeverRaises ==
    /\ (last.op = "flush" => last.raised = NoError)
    /\ (last.op = "start_execution" =>
           /\ last.send \in NetOutcome
           /\ last.raised \in {NoError, DeliveryError}
           /\ (fail_open => last.raised = NoError))

\* ---- C12
\* the threads that are inside a queue operation: flush has tested the file
\* and has not returned, or _enqueue has tested it and has not appended
InFlush(t) == threads[t].pc \in {"flush_read", "flush_line", "flush_write"}

InEnqueue(t) == threads[t].pc \in {"enqueue_read", "enqueue_rewrite", "enqueue_append"}

\* C12: at most one queue-file operation (an enqueue or a flush) is in
\* progress on the queue file at any time
C12_OneQueueOperationAtATime ==
    Cardinality({t \in Threads : InFlush(t) \/ InEnqueue(t)}) <= 1

\* C21: every step payload the client submits has status SUCCESS or ERROR,
\* SUCCESS exactly when the body completed normally and ERROR exactly when
\* it exited with a failure, and carries an error exactly when it is ERROR.
C21_StatusTellsHowBodyEnded ==
    last.op = "step_exit" =>
        /\ last.payload.status \in {"SUCCESS", "ERROR"}
        /\ (last.payload.status = "SUCCESS" <=> last.body = NoError)
        /\ (last.payload.status = "ERROR" <=> last.body # NoError)
        /\ (last.payload.error # NoError <=> last.payload.status = "ERROR")

\* ---- C22
\* s lists the tags of h, each once, in the order of their first occurrence
\* in h
FirstAt(h, x) == CHOOSE k \in 1..Len(h) : h[k] = x /\ \A m \in 1..(k - 1) : h[m] # x

FirstSeen(s, h) ==
    /\ \A i, j \in 1..Len(s) : i # j => s[i] # s[j]
    /\ {s[i] : i \in 1..Len(s)} = {h[k] : k \in 1..Len(h)}
    /\ \A i, j \in 1..Len(s) : i < j => FirstAt(h, s[i]) < FirstAt(h, s[j])

NonEmptyTags(h) == SelectSeq(h, LAMBDA x : x # "")

\* the tags of the step with this id: in its record while the scope is
\* open, in the submitted payload afterwards
StepIds == {i \in 1..MaxIds : kind[i] = "step"}

TagsOf(i) ==
    IF \E k \in 1..Len(scopes) : scopes[k].step_id = i
    THEN scopes[CHOOSE k \in 1..Len(scopes) : scopes[k].step_id = i].tags
    ELSE submitted[i][1].tags

ExecutionTagsMerged ==
    \A i \in ExecutionIds : \A k \in 1..Len(submitted[i]) :
        FirstSeen(submitted[i][k].tags, tagged[i].given \o default_tags)

\* C22, as claimed: an execution's tags are the per-call tags followed by the
\* default tags, each once at its first place; a step's tags are the tags
\* given to step followed by every tag given to StepHelper.tag, each once at
\* its first place.
C22_TagsFirstSeenOnce ==
    /\ ExecutionTagsMerged
    /\ \A i \in StepIds : FirstSeen(TagsOf(i), tagged[i].given \o tagged[i].added)

\* C22, amended: as claimed, but StepHelper.tag ignores an empty tag (an
\* empty tag given to start_execution, to step or as a default tag is kept)
C22_TagsFirstSeenOnceNonEmptyAdded ==
    /\ ExecutionTagsMerged
    /\ \A i \in StepIds : FirstSeen(TagsOf(i), tagged[i].given \o NonEmptyTags(tagged[i].added))

C22_Witness ==
    /\ last.op = "step_exit"
    /\ tagged[last.payload.step_id].given = <<"a", "a">>
    /\ tagged[last.payload.step_id].added = <<"b", "a", "">>
    /\ last.payload.tags = <<"a", "b">>
    /\ \E i \in ExecutionIds :
          /\ tagged[i].given = <<"b", "">>
          /\ default_tags = <<"a", "b">>
          /\ submitted[i][1].tags = <<"b", "", "a">>

\* ---- C23
\* C23: within one submission the re-deliveries are those of the lines that
\* were queued before it (the new record is not among them: flush runs
\* first), the direct send of the new record is made exactly once, and the
\* record is appended to the queue exactly when that send fails.
C23_FlushThenOneSendThenQueue ==
    IsPost =>
        /\ \A k \in 1..Len(last.flushcalls) : last.flushcalls[k].line \in 1..Len(last.qbefore.lines)
        /\ \A k \in 1..Len(last.qbefore.lines) : last.qbefore.lines[k].payload # last.payload
        /\ last.send \in NetOutcome
        /\ (last.send = "ok" => qfile = last.flushq /\ ~LastQueued)
        /\ (last.send # "ok" => LastAppended)

\* ---- C24
\* the line _enqueue writes for the record submitted last
LastLine == [path |-> LastPath, payload |-> last.payload, queued_at_ms |-> last.t]

\* the collector was unreachable for every request of the last submission
Unreachable ==
    /\ last.send = "fail"
    /\ \A k \in 1..Len(last.flushcalls) : last.flushcalls[k].out = "fail"

Submissions == {i \in 1..MaxIds : submitted[i] # <<>>}

Delivered(i) ==
    IF kind[i] = "exec"
    THEN ExecRow(submitted[i][1]) \in executions
    ELSE StepRow(submitted[i][1].execution_id, submitted[i][1]) \in steps

Queued(i) == \E k \in 1..Len(qfile.lines) : qfile.lines[k].payload = submitted[i][1]

\* bytes of the lines of all the records submitted: while they fit under
\* the cap, _enqueue evicts nothing
SubmittedBytes == Cardinality({i \in Submissions : kind[i] = "exec"}) + 2 * Cardinality({i \in Submissions : kind[i] = "step"})

\* C25: when the concurrent submissions and flushes are over, every record
\* submitted is in the queue file or has been delivered.
C25_NoRecordLostByRace ==
    ((\A t \in Threads : threads[t].pc = "idle") /\ SubmittedBytes <= max_queue_bytes) =>
        \A i \in Submissions : Delivered(i) \/ Queued(i)

\* ---- C27
\* every record enqueued so far has a line of s bytes
OneSize(s) == \A k \in 1..Len(enqueues) : LineBytes(enqueues[k]) = s

IsSuffix(s, h) ==
    /\ Len(s) <= Len(h)
    /\ s = SubSeq(h, Len(h) - Len(s) + 1, Len(h))

\* C27: with records of one size s <= max_queue_bytes, after any sequence of
\* enqueues the file is not larger than max_queue_bytes + s and holds the
\* records enqueued most recently, a suffix of all the records enqueued.
C27_QueueBoundedKeepsNewest ==
    \A s \in 1..max_queue_bytes :
        OneSize(s) =>
            /\ FileSize(qfile.lines) <= max_queue_bytes + s
            /\ IsSuffix(qfile.lines, enqueues)

C27_Witness ==
    /\ OneSize(1)
    /\ Len(enqueues) = MaxEnqueues
    /\ Len(qfile.lines) < Len(enqueues)
    /\ FileSize(last.qbefore.lines) = max_queue_bytes + 1
    /\ Len(qfile.lines) < Len(last.qbefore.lines) + 1

\* ---- C28
\* the place of the last step of that name in the steps get_execution
\* returned for a side
LastNamed(side, name) ==
    CHOOSE i \in 1..Len(side.steps) : side.steps[i].name = name /\ \A j \in (i + 1)..Len(side.steps) : side.steps[j].name # name

\* the steps of that name stored for the execution
StoredNamed(execution_id, name) == {x \in steps : x.execution_id = execution_id /\ x.name = name}

\* a side with the name shows the values of the last step of that name in
\* its step order; no step of that name in the execution started later
SideShowsLast(side, execution_id, name, status, duration, keywords, reasoning) ==
    name \in SideNames(side) =>
        /\ SideShows(status, duration, keywords, reasoning, side.steps[LastNamed(side, name)])
        /\ \A x \in StoredNamed(execution_id, name) : x.started_at_ms <= side.steps[LastNamed(side, name)].started_at_ms
        /\ \A i, j \in 1..Len(side.steps) : i < j => side.steps[i].started_at_ms <= side.steps[j].started_at_ms

\* C28: a step name that occurs more than once in an execution yields one
\* diff row, and the row shows for that side the values of the last step of
\* that name in the execution's step order, ascending started_at_ms.
C28_LastStepOfNameWins ==
    DiffFound =>
        /\ \A i, j \in 1..Len(last.returned.diff) : i # j => last.returned.diff[i].step # last.returned.diff[j].step
        /\ RowNames = SideNames(last.payload.A) \cup SideNames(last.payload.B)
        /\ \A i \in 1..Len(last.returned.diff) :
              /\ SideShowsLast(last.payload.A, last.payload.a, last.returned.diff[i].step, last.returned.diff[i].a_status,
                               last.returned.diff[i].a_duration_ms, last.returned.diff[i].a_keywords, last.returned.diff[i].a_reasoning)
              /\ SideShowsLast(last.payload.B, last.payload.b, last.returned.diff[i].step, last.returned.diff[i].b_status,
                               last.returned.diff[i].b_duration_ms, last.returned.diff[i].b_keywords, last.returned.diff[i].b_reasoning)

C28_Witness ==
    /\ DiffFound
    /\ last.payload.a = 1 /\ last.payload.b = 2
    /\ Len(last.payload.A.steps) = 3
    /\ \A i \in 1..3 : last.payload.A.steps[i].name = <<"x">>
    /\ last.payload.A.steps[3].step_id = 2
    /\ Len(last.returned.diff) = 2
    /\ last.returned.diff[1].step = <<"x">>
    /\ last.returned.diff[1].a_status = Some("ERROR")
    /\ last.returned.diff[1].a_reasoning = Some(<<"t">>)
    /\ last.returned.diff[1].a_keywords = None

\* ---- C26
\* the collector answered every request of the last call
LastAllOk ==
    /\ last.send \in {"ok", "none"}
    /\ \A k \in 1..Len(last.flushcalls) : last.flushcalls[k].out = "ok"

\* the collector has a row for the execution submitted with id i
HasRow(i) == \E e \in executions : e.execution_id = i

AllDeliveredNoQueue ==
    /\ \A i \in Submissions : HasRow(i)
    /\ ~qfile.exists

\* C26: if from some point on the collector stays reachable, while the
\* client keeps calling, every record ever submitted is eventually stored by
\* the collector and the queue file is eventually removed.
C26_EventuallyDeliveredAndRemoved ==
    <>[]LastAllOk => <>[]AllDeliveredNoQueue

====
